---- MODULE Spec2Model ----
(***************************************************************************)
(* Limit order matching engine: the per-symbol OrderBook (price-time       *)
(* priority matching, GFD / IOC / FOK, cancel), the MatchingEngine that    *)
(* owns one book per symbol (order entry, cancel, replace = cancel         *)
(* followed by a new limit) and the AsyncMatchingEngine that feeds it from *)
(* a queue drained by a worker thread.                                     *)
(*                                                                         *)
(* Six state machines share the module: Spec drives one book directly,     *)
(* SpecWide drives it with prices and quantities from the whole width of   *)
(* their integer type, SpecEngine drives the engine (constructed without a *)
(* callback) through its public calls, SpecCallback hands events to an     *)
(* engine constructed with a callback, SpecAsync (and FairSpecAsync, with  *)
(* fair scheduling) interleaves the calling thread and the worker,         *)
(* SpecTracking drives the engine as it is built with                      *)
(* MATCHING_ENABLE_USER_TRACKING (owners, positions, risk check). Each     *)
(* leaves the variables of the others as Init set them.                    *)
(*                                                                         *)
(* Containers are modelled by what they store:                             *)
(*   - a boost flat_map side is the sequence of its levels in the          *)
(*     container's own iteration order (bids ascending, asks descending),  *)
(*     so that the best level of either side is the last element;          *)
(*   - a level's std::list is the sequence of its orders, head first;      *)
(*   - a list iterator kept in the index is the identity of the node it    *)
(*     points at; a node is created once per order, so the order id        *)
(*     names it.                                                           *)
(***************************************************************************)
EXTENDS Integers, Sequences, FiniteSets, TLC

(* ------------------------------ bounds --------------------------------- *)

\* order ids a book may issue before the model stops accepting new orders
MaxOrders == 3
\* limit prices are drawn from 1..MaxPrice
MaxPrice == 2
\* width of the signed integer type standing for std::int64_t
IntBits == 8
\* order ids all books of the engine together may issue
MaxEngineOrders == 2
\* capacity of the event queue of the async engine
QueueCap == 2
\* submit calls the producer makes
MaxSubmits == 3
\* stop calls the producer makes (the destructor's is one of them)
MaxStops == 2
\* order ids all books of the engine with a user callback may issue
MaxCallbackOrders == 3
\* order ids the book driven over the whole width of its arguments may issue
MaxWideOrders == 2
\* order ids all books of the engine with user tracking may issue
MaxTrackedOrders == 2
\* the limit setMaxPosition is called with
PositionLimit == 1

Prices == 1..MaxPrice
\* requested quantities: the book does not validate qty, so zero is one of them
Qtys == 0..2
Sides == {"Buy", "Sell"}
TimeInForces == {"GFD", "IOC", "FOK"}

(* --------------------------- generic helpers --------------------------- *)

\* variant of Min: the larger of the two
Min_larger(a, b) == IF a < b THEN b ELSE a

\* std::min
Min(a, b) == IF a < b THEN a ELSE b

\* std::list::erase / flat_map::erase at a position
RemoveAt(s, i) == [k \in 1..(Len(s) - 1) |-> IF k < i THEN s[k] ELSE s[k + 1]]

\* flat_map insertion of a new element at a position
InsertAt(s, i, x) ==
    [k \in 1..(Len(s) + 1) |-> IF k < i THEN s[k] ELSE IF k = i THEN x ELSE s[k - 1]]

numeric_limits_max == 2 ^ (IntBits - 1) - 1
numeric_limits_min == 0 - 2 ^ (IntBits - 1)

(* ------------------------------ OrderBook ------------------------------ *)

\* OrderBook constructor: the symbol's id and its borrowed name, empty sides,
\* empty index, next_id_ = 1, zero stats
NewBook(symbol_id, symbol_name) ==
    [ symbol_id_ |-> symbol_id,
      symbol_name_ |-> symbol_name,
      next_id_   |-> 1,
      bids_      |-> << >>,
      asks_      |-> << >>,
      index_     |-> << >>,
      stats_     |-> [ trade_count |-> 0, traded_qty |-> 0,
                       last_trade_price |-> 0, has_last_trade |-> FALSE ] ]

\* flat_map::find: the position of the level keyed by price, 0 for end()
FindLevel(side, price) ==
    IF \E k \in 1..Len(side) : side[k].price = price
    THEN CHOOSE k \in 1..Len(side) : side[k].price = price
    ELSE 0

\* position at which flat_map<Price, PriceLevel> (std::less) stores a new key
BidInsertPos(bids, price) ==
    Cardinality({k \in 1..Len(bids) : bids[k].price < price}) + 1

\* position at which flat_map<Price, PriceLevel, std::greater> stores a new key
AskInsertPos(asks, price) ==
    Cardinality({k \in 1..Len(asks) : asks[k].price > price}) + 1

\* boost::unordered_flat_map::erase(key)
IndexErase(index, id) == [k \in (DOMAIN index) \ {id} |-> index[k]]

\* index_[id] = loc
IndexPut(index, id, loc) ==
    [k \in (DOMAIN index) \cup {id} |-> IF k = id THEN loc ELSE index[k]]

\* the node a stored list iterator designates; dereferencing an iterator whose
\* node is no longer in the list has no defined outcome, and the evaluation
\* fails if such a state is ever reached
NodePos(orders, it) == CHOOSE k \in 1..Len(orders) : orders[k].id = it

\* emitTrade's update of stats_ for a trade of qty at price
Counted(book, price, qty) ==
    [ book EXCEPT !.stats_ = [ trade_count      |-> @.trade_count + 1,
                               traded_qty       |-> @.traded_qty + qty,
                               last_trade_price |-> price,
                               has_last_trade   |-> TRUE ] ]

\* variant of emitTrade: the trade carries the incoming order's own price
emitTrade_takerPrice(r, price, qty, buy_id, sell_id) ==
    [ r EXCEPT
        !.book.stats_ = [ trade_count      |-> @.trade_count + 1,
                          traded_qty       |-> @.traded_qty + qty,
                          last_trade_price |-> r.o.price,
                          has_last_trade   |-> TRUE ],
        !.out = Append(@, [ symbol_id |-> r.book.symbol_id_, price |-> r.o.price,
                            qty |-> qty, buy_id |-> buy_id, sell_id |-> sell_id ]),
        !.seen = Append(@, [book |-> Counted(r.book, r.o.price, qty), o |-> r.o]) ]

\* variant of emitTrade: the trade is counted but its quantity is not added
emitTrade_noQty(r, price, qty, buy_id, sell_id) ==
    [ r EXCEPT
        !.book.stats_ = [ trade_count      |-> @.trade_count + 1,
                          traded_qty       |-> @.traded_qty,
                          last_trade_price |-> price,
                          has_last_trade   |-> TRUE ],
        !.out = Append(@, [ symbol_id |-> r.book.symbol_id_, price |-> price,
                            qty |-> qty, buy_id |-> buy_id, sell_id |-> sell_id ]),
        !.seen = Append(@, [book |-> Counted(r.book, price, 0), o |-> r.o]) ]

\* variant of emitTrade: the callback is invoked first, the stats are
\* updated after it returns
emitTrade_callbackFirst(r, price, qty, buy_id, sell_id) ==
    [ r EXCEPT
        !.book = Counted(@, price, qty),
        !.out = Append(@, [ symbol_id |-> r.book.symbol_id_, price |-> price,
                            qty |-> qty, buy_id |-> buy_id, sell_id |-> sell_id ]),
        !.seen = Append(@, [book |-> r.book, o |-> r.o]) ]

\* emitTrade: the stats are updated, then the callback receives the trade.
\* r = [book, o (the incoming order), out (the trades the callback received),
\* seen (what the callback could see at each invocation: the book and the
\* incoming order as they were at that moment)]. (at is r, evaluated once.)
emitTrade(r, price, qty, buy_id, sell_id) ==
    CHOOSE after \in
      { [ at EXCEPT
            !.book = Counted(@, price, qty),
            !.out = Append(@, [ symbol_id |-> at.book.symbol_id_, price |-> price,
                                qty |-> qty, buy_id |-> buy_id, sell_id |-> sell_id ]),
            !.seen = Append(@, [book |-> Counted(at.book, price, qty), o |-> at.o]) ] :
          at \in {r} } : TRUE

\* variant of bestLevel: the level at begin(), the worst price of the side
bestLevel_begin(side) == IF Len(side) > 0 THEN 1 ELSE 0

\* std::prev(side.end()): the position of the best level of a side
bestLevel(side) == Len(side)

\* variant of buyStops: the buy also stops at an ask equal to its limit
buyStops_atEqual(buy, bestAskPx) == buy.type = "Limit" /\ buy.price <= bestAskPx

\* matchBuy's price test: a limit buy stops at the first ask above its limit
buyStops(buy, bestAskPx) == buy.type = "Limit" /\ buy.price < bestAskPx

\* variant of sellStops: the sell goes on one tick below its limit
sellStops_oneTickLate(sell, bestBidPx) ==
    sell.type = "Limit" /\ sell.price > bestBidPx + 1

\* matchSell's price test: a limit sell stops at the first bid below its limit
sellStops(sell, bestBidPx) == sell.type = "Limit" /\ sell.price > bestBidPx

\* variant of eraseFilled: the filled order's index entry is left behind
eraseFilled_keepsIndex(book, id) == book

\* erase of a fully filled resting order: out of the index, out of the list
eraseFilled(book, id) == [book EXCEPT !.index_ = IndexErase(@, id)]

\* matchBuy, inner loop: walk the FIFO of the level at position lv of asks_
\* from the list position it. r = [book, o (the incoming buy), out (trades)]
RECURSIVE matchBuyWalk(_, _, _, _)
matchBuyWalk(r, lv, bestAskPx, it) ==
    LET lvl == r.book.asks_[lv] IN
    IF ~(it <= Len(lvl.orders) /\ r.o.qty > 0) THEN r
    ELSE
      LET sell   == lvl.orders[it]
          traded == Min(r.o.qty, sell.qty)
          r1 == [ r EXCEPT !.o.qty = @ - traded,
                           !.book.asks_[lv].orders[it].qty = @ - traded,
                           !.book.asks_[lv].total_qty = @ - traded ]
          r2 == emitTrade(r1, bestAskPx, traded, r.o.id, sell.id)
      IN IF sell.qty - traded = 0
         THEN matchBuyWalk(
                [ r2 EXCEPT !.book = eraseFilled(@, sell.id),
                            !.book.asks_[lv].orders = RemoveAt(@, it) ],
                lv, bestAskPx, it)
         ELSE matchBuyWalk(r2, lv, bestAskPx, it + 1)

\* matchBuy: match an incoming buy against the resting asks, best ask first
RECURSIVE matchBuy(_)
matchBuy(r) ==
    IF ~(r.o.qty > 0 /\ Len(r.book.asks_) > 0) THEN r
    ELSE
      LET bestAskIt == bestLevel(r.book.asks_)
          bestAskPx == r.book.asks_[bestAskIt].price
      IN IF buyStops(r.o, bestAskPx) THEN r
         ELSE
           LET w == matchBuyWalk(r, bestAskIt, bestAskPx, 1)
           IN IF Len(w.book.asks_[bestAskIt].orders) = 0
              THEN matchBuy([w EXCEPT !.book.asks_ = RemoveAt(@, bestAskIt)])
              ELSE matchBuy(w)

\* matchSell, inner loop: walk the FIFO of the level at position lv of bids_
RECURSIVE matchSellWalk(_, _, _, _)
matchSellWalk(r, lv, bestBidPx, it) ==
    LET lvl == r.book.bids_[lv] IN
    IF ~(it <= Len(lvl.orders) /\ r.o.qty > 0) THEN r
    ELSE
      LET buy    == lvl.orders[it]
          traded == Min(r.o.qty, buy.qty)
          r1 == [ r EXCEPT !.o.qty = @ - traded,
                           !.book.bids_[lv].orders[it].qty = @ - traded,
                           !.book.bids_[lv].total_qty = @ - traded ]
          r2 == emitTrade(r1, bestBidPx, traded, buy.id, r.o.id)
      IN IF buy.qty - traded = 0
         THEN matchSellWalk(
                [ r2 EXCEPT !.book = eraseFilled(@, buy.id),
                            !.book.bids_[lv].orders = RemoveAt(@, it) ],
                lv, bestBidPx, it)
         ELSE matchSellWalk(r2, lv, bestBidPx, it + 1)

\* matchSell: match an incoming sell against the resting bids, best bid first
RECURSIVE matchSell(_)
matchSell(r) ==
    IF ~(r.o.qty > 0 /\ Len(r.book.bids_) > 0) THEN r
    ELSE
      LET bestBidIt == bestLevel(r.book.bids_)
          bestBidPx == r.book.bids_[bestBidIt].price
      IN IF sellStops(r.o, bestBidPx) THEN r
         ELSE
           LET w == matchSellWalk(r, bestBidIt, bestBidPx, 1)
           IN IF Len(w.book.bids_[bestBidIt].orders) = 0
              THEN matchSell([w EXCEPT !.book.bids_ = RemoveAt(@, bestBidIt)])
              ELSE matchSell(w)

\* match: dispatch on the incoming order's side
match(r) == IF r.o.side = "Buy" THEN matchBuy(r) ELSE matchSell(r)

\* variant of pushBack: the order is put at the head of the list
pushBack_atFront(lvl, o) ==
    [lvl EXCEPT !.orders = << o >> \o @, !.total_qty = @ + o.qty]

\* variant of pushBack: the order is appended, total_qty is not increased
pushBack_noTotal(lvl, o) == [lvl EXCEPT !.orders = Append(@, o)]

\* PriceLevel after lvl.orders.push_back(o); lvl.total_qty += o.qty
pushBack(lvl, o) ==
    [lvl EXCEPT !.orders = Append(@, o), !.total_qty = @ + o.qty]

\* OrderLocator{o.side, o.price, std::prev(lvl.orders.end())}
locatorOf(o) == [side |-> o.side, price |-> o.price, it |-> o.id]

\* a default-constructed PriceLevel, as flat_map::operator[] creates it
EmptyLevel(price) == [price |-> price, total_qty |-> 0, orders |-> << >>]

\* addRestingOrder: append to the level at o.price (created on demand) and
\* register the order in the index
addRestingOrder(book, o) ==
    IF o.side = "Buy"
    THEN LET at == FindLevel(book.bids_, o.price)
             side1 == IF at = 0
                      THEN InsertAt(book.bids_, BidInsertPos(book.bids_, o.price),
                                    EmptyLevel(o.price))
                      ELSE book.bids_
             pos == FindLevel(side1, o.price)
         IN [ book EXCEPT !.bids_ = [side1 EXCEPT ![pos] = pushBack(@, o)],
                          !.index_ = IndexPut(@, o.id, locatorOf(o)) ]
    ELSE LET at == FindLevel(book.asks_, o.price)
             side1 == IF at = 0
                      THEN InsertAt(book.asks_, AskInsertPos(book.asks_, o.price),
                                    EmptyLevel(o.price))
                      ELSE book.asks_
             pos == FindLevel(side1, o.price)
         IN [ book EXCEPT !.asks_ = [side1 EXCEPT ![pos] = pushBack(@, o)],
                          !.index_ = IndexPut(@, o.id, locatorOf(o)) ]

\* canFullyMatch, Buy loop: asks from the best (lowest) upward; k is the
\* position of the iterator in asks_ (0 = rend())
RECURSIVE canFullyMatchBuy(_, _, _, _)
canFullyMatchBuy(asks, price, need, k) ==
    IF k = 0 THEN FALSE
    ELSE IF asks[k].price > price THEN FALSE
    ELSE IF need - asks[k].total_qty <= 0 THEN TRUE
    ELSE canFullyMatchBuy(asks, price, need - asks[k].total_qty, k - 1)

\* canFullyMatch, Sell loop: bids from the best (highest) downward
RECURSIVE canFullyMatchSell(_, _, _, _)
canFullyMatchSell(bids, price, need, k) ==
    IF k = 0 THEN FALSE
    ELSE IF bids[k].price < price THEN FALSE
    ELSE IF need - bids[k].total_qty <= 0 THEN TRUE
    ELSE canFullyMatchSell(bids, price, need - bids[k].total_qty, k - 1)

\* variant of canFullyMatch: every level counts, whatever its price
canFullyMatch_anyPrice(book, side, price, qty) ==
    IF qty <= 0 THEN TRUE
    ELSE IF side = "Buy"
         THEN canFullyMatchBuy(book.asks_, numeric_limits_max, qty, Len(book.asks_))
         ELSE canFullyMatchSell(book.bids_, numeric_limits_min, qty, Len(book.bids_))

\* variant of canFullyMatch: the crossing levels must hold more than qty
canFullyMatch_strict(book, side, price, qty) ==
    IF qty <= 0 THEN TRUE
    ELSE IF side = "Buy"
         THEN canFullyMatchBuy(book.asks_, price, qty + 1, Len(book.asks_))
         ELSE canFullyMatchSell(book.bids_, price, qty + 1, Len(book.bids_))

\* canFullyMatch: can qty be filled at once against the crossing levels
canFullyMatch(book, side, price, qty) ==
    IF qty <= 0 THEN TRUE
    ELSE IF side = "Buy"
         THEN canFullyMatchBuy(book.asks_, price, qty, Len(book.asks_))
         ELSE canFullyMatchSell(book.bids_, price, qty, Len(book.bids_))

\* variant of restsAfterMatch: a GFD order rests even with nothing left
restsAfterMatch_anyQty(o) == o.tif = "GFD"

\* variant of restsAfterMatch: any remainder rests, whatever the tif
restsAfterMatch_anyTif(o) == o.qty > 0

\* variant of restsAfterMatch: a GFD order rests with any quantity but zero
restsAfterMatch_nonZero(o) == o.qty # 0 /\ o.tif = "GFD"

\* addLimit's test for resting the remainder
restsAfterMatch(o) == o.qty > 0 /\ o.tif = "GFD"

\* variant of addLimit: a rejected FOK order gives its id back to the counter
addLimit_fokKeepsId(book, side, price, qty, tif) ==
    LET o  == [ id |-> book.next_id_, price |-> price, qty |-> qty,
                side |-> side, type |-> "Limit", tif |-> tif ]
        b1 == [book EXCEPT !.next_id_ = @ + 1]
    IN IF o.tif = "FOK" /\ ~canFullyMatch(b1, o.side, o.price, o.qty)
       THEN [book |-> book, out |-> << >>, seen |-> << >>, ret |-> o.id]
       ELSE LET m == match([book |-> b1, o |-> o, out |-> << >>, seen |-> << >>])
            IN [ book |-> IF restsAfterMatch(m.o)
                          THEN addRestingOrder(m.book, m.o) ELSE m.book,
                 out  |-> m.out,
                 seen |-> m.seen,
                 ret  |-> o.id ]

\* addLimit: result [book, out (trades emitted), seen, ret (the id assigned)];
\* m is the outcome of match, evaluated once
addLimit(book, side, price, qty, tif) ==
    LET o  == [ id |-> book.next_id_, price |-> price, qty |-> qty,
                side |-> side, type |-> "Limit", tif |-> tif ]
        b1 == [book EXCEPT !.next_id_ = @ + 1]
    IN IF o.tif = "FOK" /\ ~canFullyMatch(b1, o.side, o.price, o.qty)
       THEN [book |-> b1, out |-> << >>, seen |-> << >>, ret |-> o.id]
       ELSE CHOOSE res \in
              { [ book |-> IF restsAfterMatch(m.o)
                           THEN addRestingOrder(m.book, m.o) ELSE m.book,
                  out  |-> m.out,
                  seen |-> m.seen,
                  ret  |-> o.id ] :
                m \in { match([book |-> b1, o |-> o, out |-> << >>, seen |-> << >>]) } } :
              TRUE

\* the price addMarket gives the order: the extreme value of Price on its side
marketPrice(side) == IF side = "Buy" THEN numeric_limits_max ELSE numeric_limits_min

\* variant of addMarket: what is left of the market order is put on the book
addMarket_rests(book, side, qty) ==
    LET o  == [ id |-> book.next_id_, price |-> marketPrice(side), qty |-> qty,
                side |-> side, type |-> "Market", tif |-> "IOC" ]
        b1 == [book EXCEPT !.next_id_ = @ + 1]
        m  == match([book |-> b1, o |-> o, out |-> << >>, seen |-> << >>])
    IN [ book |-> IF m.o.qty > 0 THEN addRestingOrder(m.book, m.o) ELSE m.book,
         out |-> m.out, seen |-> m.seen, ret |-> o.id ]

\* addMarket: an IOC order of type Market; it is matched and never rests
addMarket(book, side, qty) ==
    LET o  == [ id |-> book.next_id_, price |-> marketPrice(side), qty |-> qty,
                side |-> side, type |-> "Market", tif |-> "IOC" ]
        b1 == [book EXCEPT !.next_id_ = @ + 1]
        m  == match([book |-> b1, o |-> o, out |-> << >>, seen |-> << >>])
    IN [book |-> m.book, out |-> m.out, seen |-> m.seen, ret |-> o.id]

\* variant of cancelFromLevel: the order at the front of the level is erased,
\* not the one the stored iterator designates
cancelFromLevel_head(lvl, it) ==
    LET q == lvl.orders[1].qty
    IN [ lvl EXCEPT !.total_qty = IF q > 0 THEN @ - q ELSE @,
                    !.orders = Tail(@) ]

\* variant of cancelFromLevel: total_qty keeps the cancelled quantity
cancelFromLevel_keepsTotal(lvl, it) ==
    [lvl EXCEPT !.orders = RemoveAt(@, NodePos(lvl.orders, it))]

\* cancel's removal from one level: the level after total_qty is reduced by
\* the order's remaining quantity and the node is erased from the list
cancelFromLevel(lvl, it) ==
    LET k == NodePos(lvl.orders, it)
        q == lvl.orders[k].qty
    IN [ lvl EXCEPT !.total_qty = IF q > 0 THEN @ - q ELSE @,
                    !.orders = RemoveAt(@, k) ]

\* variant of cancelNotFound: an id absent from the index is reported cancelled
cancelNotFound_true(book) == [book |-> book, ret |-> TRUE]

\* cancel's return for an id absent from the index: nothing changes, false
cancelNotFound(book) == [book |-> book, ret |-> FALSE]

\* cancel: result [book, ret (TRUE iff the order was found and removed)]
cancel(book, id) ==
    IF id \notin DOMAIN book.index_ THEN cancelNotFound(book)
    ELSE
      LET loc == book.index_[id] IN
      IF loc.side = "Buy"
      THEN LET lvlIt == FindLevel(book.bids_, loc.price) IN
           IF lvlIt = 0
           THEN [book |-> [book EXCEPT !.index_ = IndexErase(@, id)], ret |-> FALSE]
           ELSE LET lvl == cancelFromLevel(book.bids_[lvlIt], loc.it)
                IN [ book |-> [ book EXCEPT
                                  !.index_ = IndexErase(@, id),
                                  !.bids_ = IF Len(lvl.orders) = 0
                                            THEN RemoveAt(@, lvlIt)
                                            ELSE [@ EXCEPT ![lvlIt] = lvl] ],
                     ret |-> TRUE ]
      ELSE LET lvlIt == FindLevel(book.asks_, loc.price) IN
           IF lvlIt = 0
           THEN [book |-> [book EXCEPT !.index_ = IndexErase(@, id)], ret |-> FALSE]
           ELSE LET lvl == cancelFromLevel(book.asks_[lvlIt], loc.it)
                IN [ book |-> [ book EXCEPT
                                  !.index_ = IndexErase(@, id),
                                  !.asks_ = IF Len(lvl.orders) = 0
                                            THEN RemoveAt(@, lvlIt)
                                            ELSE [@ EXCEPT ![lvlIt] = lvl] ],
                     ret |-> TRUE ]

\* variant of replace: the old order is left in the book
replace_keepsOld(book, old_id, side, price, qty, tif) ==
    addLimit(book, side, price, qty, tif)

\* MatchingEngine::replace on the symbol's book: cancel(old_id), result
\* ignored, then a new limit order
replace(book, old_id, side, price, qty, tif) ==
    addLimit(cancel(book, old_id).book, side, price, qty, tif)

\* the quotient of C++ integer division, which truncates toward zero
Quot(a, b) == IF a >= 0 THEN a \div b ELSE 0 - ((0 - a) \div b)

\* OrderBook::bestBid, bestAsk: the price of the last level of the side
bestBid(book) ==
    IF Len(book.bids_) = 0 THEN << >> ELSE << book.bids_[Len(book.bids_)].price >>

bestAsk(book) ==
    IF Len(book.asks_) = 0 THEN << >> ELSE << book.asks_[Len(book.asks_)].price >>

\* OrderBook::bestBidSize, bestAskSize: the total_qty of that level
bestBidSize(book) ==
    IF Len(book.bids_) = 0 THEN << >>
    ELSE << book.bids_[Len(book.bids_)].total_qty >>

bestAskSize(book) ==
    IF Len(book.asks_) = 0 THEN << >>
    ELSE << book.asks_[Len(book.asks_)].total_qty >>

\* whether x is a value of std::int64_t
Representable(x) == numeric_limits_min <= x /\ x <= numeric_limits_max

\* OrderBook::midPrice, for best prices whose sum is a value of Price
midPrice(book) ==
    IF bestBid(book) = << >> \/ bestAsk(book) = << >> THEN << >>
    ELSE << Quot(bestBid(book)[1] + bestAsk(book)[1], 2) >>

\* OrderBook::midPrice, for any best prices: what the call may return. The
\* sum *bb + *ba of two signed integers has no defined result when it is
\* not a value of Price, and the call may then return anything.
midPriceOutcomes(book) ==
    IF bestBid(book) = << >> \/ bestAsk(book) = << >> THEN { << >> }
    ELSE IF Representable(bestBid(book)[1] + bestAsk(book)[1]) THEN { midPrice(book) }
    ELSE { << >> } \cup { << v >> : v \in numeric_limits_min..numeric_limits_max }

\* OrderBook::stats
stats(book) == book.stats_

(* --------------------------- MatchingEngine ------------------------------ *)
(* The engine is the SymbolIndex (names_, a deque whose positions are the   *)
(* symbol ids, and to_id_, the map from names to ids) and books_, a vector *)
(* of owning pointers indexed by symbol id. Symbol ids count from 0,       *)
(* sequences from 1. A std::optional is a sequence: << >> is std::nullopt, *)
(* << v >> holds v.                                                        *)

\* an empty std::unique_ptr<BookType>
NoBook == [null |-> TRUE]

\* std::nullopt, as SymbolIndex::find returns it
NoSymbol == -1

\* the engine after construction
NewEngine == [names_ |-> << >>, to_id_ |-> [n \in {} |-> 0], books_ |-> << >>]

\* SymbolIndex::find
find(to_id, name) == IF name \in DOMAIN to_id THEN to_id[name] ELSE NoSymbol

\* SymbolIndex::name
nameOf(names, id) == names[id + 1]

\* SymbolIndex::size
size(names) == Len(names)

\* what names_[id] is for an id that names_ does not hold: std::deque's
\* operator[] outside the container has no defined result. This value stands
\* for it inside an operator; the action that applies the operator chooses
\* what was read, with Borrowing
Unread == "<?>"

\* SymbolIndex::nameCStr
nameCStr(names, id) == IF id < Len(names) THEN names[id + 1] ELSE Unread

\* what a read outside names_ may give as a name: the name of some symbol,
\* or an empty string
ReadOutcomes == {"FOO", "BAR", ""}

\* the engine, with `read` as the name that was read outside names_
Borrowing(e, read) ==
    [ e EXCEPT !.books_ =
        [ k \in 1..Len(@) |->
            IF @[k] # NoBook /\ @[k].symbol_name_ = Unread
            THEN [@[k] EXCEPT !.symbol_name_ = read]
            ELSE @[k] ] ]

\* variant of getOrCreate: the name is entered again even when it has an id
getOrCreate_alwaysAppends(e, name) ==
    [ eng |-> [ e EXCEPT !.names_ = Append(@, name),
                         !.to_id_ = [ n \in DOMAIN @ \cup {name} |->
                                        IF n = name THEN Len(e.names_) ELSE @[n] ] ],
      id |-> Len(e.names_) ]

\* SymbolIndex::getOrCreate: result [eng, id]
getOrCreate(e, name) ==
    IF name \in DOMAIN e.to_id_
    THEN [eng |-> e, id |-> e.to_id_[name]]
    ELSE [ eng |-> [ e EXCEPT !.names_ = Append(@, name),
                              !.to_id_ = [ n \in DOMAIN @ \cup {name} |->
                                             IF n = name THEN size(e.names_)
                                             ELSE @[n] ] ],
           id |-> size(e.names_) ]

\* MatchingEngine::resolveSymbol
resolveSymbol(e, name) == getOrCreate(e, name)

\* variant of getOrCreateBook: a new book's name is pushed onto names_ again
getOrCreateBook_registers(e, symbol) ==
    LET grown == IF symbol >= Len(e.books_)
                 THEN e.books_ \o [k \in 1..(symbol + 1 - Len(e.books_)) |-> NoBook]
                 ELSE e.books_
    IN IF grown[symbol + 1] = NoBook
       THEN [ e EXCEPT !.books_ = [ grown EXCEPT ![symbol + 1] =
                                      NewBook(symbol, nameCStr(e.names_, symbol)) ],
                       !.names_ = Append(@, nameCStr(e.names_, symbol)) ]
       ELSE [e EXCEPT !.books_ = grown]

\* MatchingEngine::getOrCreateBook: books_ grows to hold the symbol, and an
\* empty slot gets a new book, which borrows the symbol's name from names_
getOrCreateBook(e, symbol) ==
    LET grown == IF symbol >= Len(e.books_)
                 THEN e.books_ \o [k \in 1..(symbol + 1 - Len(e.books_)) |-> NoBook]
                 ELSE e.books_
    IN [ e EXCEPT !.books_ =
           IF grown[symbol + 1] = NoBook
           THEN [grown EXCEPT ![symbol + 1] = NewBook(symbol, nameCStr(e.names_, symbol))]
           ELSE grown ]

\* MatchingEngine::newLimit(SymbolId, ...): result [eng, out, ret]; e1 is the
\* engine after getOrCreateBook and r what addLimit returned, evaluated once
newLimit(e, symbol, side, price, qty, tif) ==
    CHOOSE res \in
      { [ eng |-> [e1 EXCEPT !.books_[symbol + 1] = r.book], out |-> r.out,
          ret |-> r.ret ] :
        << e1, r >> \in
          { << g, addLimit(g.books_[symbol + 1], side, price, qty, tif) >> :
              g \in { getOrCreateBook(e, symbol) } } } : TRUE

\* variant of newMarket: the order goes to the book of symbol 0
newMarket_firstBook(e, symbol, side, qty) ==
    LET e1 == getOrCreateBook(e, 0)
        r  == addMarket(e1.books_[1], side, qty)
    IN [eng |-> [e1 EXCEPT !.books_[1] = r.book], out |-> r.out, ret |-> r.ret]

\* MatchingEngine::newMarket(SymbolId, ...): result [eng, out, ret]
newMarket(e, symbol, side, qty) ==
    LET e1 == getOrCreateBook(e, symbol)
        r  == addMarket(e1.books_[symbol + 1], side, qty)
    IN [eng |-> [e1 EXCEPT !.books_[symbol + 1] = r.book], out |-> r.out, ret |-> r.ret]

\* variant of cancelSymbol: the symbol's book is looked up with
\* getOrCreateBook, as the order entry calls do
cancelSymbol_createsBook(e, symbol, id) ==
    LET e1 == getOrCreateBook(e, symbol)
        r  == cancel(e1.books_[symbol + 1], id)
    IN [eng |-> [e1 EXCEPT !.books_[symbol + 1] = r.book], ret |-> r.ret]

\* MatchingEngine::cancel(SymbolId, OrderId): result [eng, ret]
cancelSymbol(e, symbol, id) ==
    IF symbol >= Len(e.books_) \/ e.books_[symbol + 1] = NoBook
    THEN [eng |-> e, ret |-> FALSE]
    ELSE LET r == cancel(e.books_[symbol + 1], id)
         IN [eng |-> [e EXCEPT !.books_[symbol + 1] = r.book], ret |-> r.ret]

\* MatchingEngine::replace(SymbolId, ...): cancel, its result ignored, then
\* newLimit. Result [eng, out, ret]
replaceSymbol(e, symbol, old_id, side, price, qty, tif) ==
    newLimit(cancelSymbol(e, symbol, old_id).eng, symbol, side, price, qty, tif)

\* MatchingEngine::cancel(const std::string&, OrderId): result [eng, ret]
cancelByName(e, name, id) ==
    IF find(e.to_id_, name) = NoSymbol
    THEN [eng |-> e, ret |-> FALSE]
    ELSE cancelSymbol(e, find(e.to_id_, name), id)

\* a default-constructed TopOfBook
NoTopOfBook ==
    [ best_bid |-> << >>, bid_size |-> << >>, best_ask |-> << >>,
      ask_size |-> << >>, mid_price |-> << >> ]

\* variant of topOfBook: the sizes are those of the opposite side
topOfBook_swapsSizes(e, symbol) ==
    IF symbol >= Len(e.books_) \/ e.books_[symbol + 1] = NoBook
    THEN NoTopOfBook
    ELSE LET b == e.books_[symbol + 1]
         IN [ best_bid |-> bestBid(b), bid_size |-> bestAskSize(b),
              best_ask |-> bestAsk(b), ask_size |-> bestBidSize(b),
              mid_price |-> midPrice(b) ]

\* MatchingEngine::topOfBook(SymbolId)
topOfBook(e, symbol) ==
    IF symbol >= Len(e.books_) \/ e.books_[symbol + 1] = NoBook
    THEN NoTopOfBook
    ELSE LET b == e.books_[symbol + 1]
         IN [ best_bid |-> bestBid(b), bid_size |-> bestBidSize(b),
              best_ask |-> bestAsk(b), ask_size |-> bestAskSize(b),
              mid_price |-> midPrice(b) ]

\* MatchingEngine::topOfBook(const std::string&)
topOfBookByName(e, name) ==
    IF find(e.to_id_, name) = NoSymbol THEN NoTopOfBook
    ELSE topOfBook(e, find(e.to_id_, name))

\* MatchingEngine::findBook(const std::string&): the book, or NoBook for
\* nullptr
findBook(e, name) ==
    IF find(e.to_id_, name) = NoSymbol
         \/ find(e.to_id_, name) >= Len(e.books_)
         \/ e.books_[find(e.to_id_, name) + 1] = NoBook
    THEN NoBook
    ELSE e.books_[find(e.to_id_, name) + 1]

\* MatchingEngine::bookStats(SymbolId)
bookStats(e, symbol) ==
    IF symbol >= Len(e.books_) \/ e.books_[symbol + 1] = NoBook THEN << >>
    ELSE << stats(e.books_[symbol + 1]) >>

\* MatchingEngine::bookStats(const std::string&)
bookStatsByName(e, name) ==
    IF find(e.to_id_, name) = NoSymbol
         \/ find(e.to_id_, name) >= Len(e.books_)
         \/ e.books_[find(e.to_id_, name) + 1] = NoBook
    THEN << >>
    ELSE << stats(e.books_[find(e.to_id_, name) + 1]) >>

\* MatchingEngine::processInternal with user tracking compiled out, as
\* matching_engine.hpp sets it: result [eng, out, ret], ret being the id the
\* call made returned, which processInternal discards
processInternal(e, ie) ==
    CASE ie.type = "NewLimit" ->
           newLimit(e, ie.symbol, ie.side, ie.price, ie.qty, ie.tif)
      [] ie.type = "NewMarket" ->
           newMarket(e, ie.symbol, ie.side, ie.qty)
      [] ie.type = "Cancel" ->
           [eng |-> cancelSymbol(e, ie.symbol, ie.id).eng, out |-> << >>, ret |-> 0]
      [] ie.type = "Replace" ->
           replaceSymbol(e, ie.symbol, ie.id, ie.side, ie.price, ie.qty, ie.tif)
      [] OTHER -> [eng |-> e, out |-> << >>, ret |-> 0]

\* MatchingEngine::process: the symbol is resolved, then processInternal
process(e, ev) ==
    LET s == getOrCreate(e, ev.symbol)
    IN processInternal(s.eng, [ev EXCEPT !.symbol = s.id])

\* variant of handleTradePlain: the callback is called twice for a trade
handleTradePlain_twice(callback, received, t) ==
    IF callback THEN Append(Append(received, t), t) ELSE received

\* MatchingEngine::handleTrade with user tracking compiled out:
\* if(callback_) callback_(t). callback tells whether the engine was given a
\* callback at construction; received is what that callback has received
handleTradePlain(callback, received, t) ==
    IF callback THEN Append(received, t) ELSE received

\* InternalCallback::operator(), invoked by the book for each trade it emits
RECURSIVE handleTradesPlain(_, _, _)
handleTradesPlain(callback, received, out) ==
    IF Len(out) = 0 THEN received
    ELSE handleTradesPlain(callback, handleTradePlain(callback, received, Head(out)),
                           Tail(out))

(* ------------------- MatchingEngine with user tracking ------------------- *)
(* The members and the code that matching_engine.hpp compiles when         *)
(* MATCHING_ENABLE_USER_TRACKING is 1: owner_, a map from order id to      *)
(* user; user_positions_, a map from user and symbol to position and       *)
(* traded volume; max_abs_position_; and the hint current_user_,           *)
(* current_side_, have_current_, which is set only while addLimit or       *)
(* addMarket runs. The engine proper (symbol index and books) is the field *)
(* eng. A map is a function on the keys it holds.                          *)

\* the engine after construction
NewTrackedEngine ==
    [ eng |-> NewEngine, owner_ |-> [i \in {} |-> 0],
      user_positions_ |-> [p \in {} |-> 0], max_abs_position_ |-> 1000000000 ]

\* m[key] = value of a map
MapPut(m, key, value) ==
    [k \in DOMAIN m \cup {key} |-> IF k = key THEN value ELSE m[k]]

\* m.erase(key)
MapErase(m, key) == [k \in DOMAIN m \ {key} |-> m[k]]

\* a default-constructed UserSymbolPosition
NoPosition == [position |-> 0, traded_volume |-> 0]

\* user_positions_[user][symbol], which enters a default position if none
\* is held
PositionOf(up, user, symbol) ==
    IF << user, symbol >> \in DOMAIN up THEN up[<< user, symbol >>] ELSE NoPosition

\* std::llabs
llabs(x) == IF x < 0 THEN 0 - x ELSE x

\* MatchingEngine::checkRisk
checkRisk(t, user, symbol, side, qty) ==
    LET curr == PositionOf(t.user_positions_, user, symbol).position
        newPos == curr + (IF side = "Buy" THEN qty ELSE 0 - qty)
    IN ~(llabs(newPos) > t.max_abs_position_)

\* pos.position += dq; pos.traded_volume += qty on user_positions_[user][symbol]
Credit(up, user, symbol, dq, qty) ==
    MapPut(up, << user, symbol >>,
           [ position |-> PositionOf(up, user, symbol).position + dq,
             traded_volume |-> PositionOf(up, user, symbol).traded_volume + qty ])

\* MatchingEngine::handleTrade for one trade, the hint being cur = [have,
\* user, side]: result the new user_positions_
handleTrade(t, tr, cur) ==
    LET up1 == IF tr.buy_id \in DOMAIN t.owner_
               THEN Credit(t.user_positions_, t.owner_[tr.buy_id], tr.symbol_id,
                           tr.qty, tr.qty)
               ELSE IF cur.have /\ cur.side = "Buy" /\ tr.buy_id # 0
                    THEN Credit(t.user_positions_, cur.user, tr.symbol_id,
                                tr.qty, tr.qty)
                    ELSE t.user_positions_
    IN IF tr.sell_id \in DOMAIN t.owner_
       THEN Credit(up1, t.owner_[tr.sell_id], tr.symbol_id, 0 - tr.qty, tr.qty)
       ELSE IF cur.have /\ cur.side = "Sell" /\ tr.sell_id # 0
            THEN Credit(up1, cur.user, tr.symbol_id, 0 - tr.qty, tr.qty)
            ELSE up1

\* handleTrade for the trades of one addLimit or addMarket, in order;
\* owner_ and the hint do not change while they are emitted
RECURSIVE handleTrades(_, _, _)
handleTrades(t, out, cur) ==
    IF Len(out) = 0 THEN t
    ELSE handleTrades([t EXCEPT !.user_positions_ = handleTrade(t, Head(out), cur)],
                      Tail(out), cur)

\* what newLimit and newMarket do around the book call r = [eng, out, ret]:
\* the trades reach handleTrade under the hint, then the id gets its owner
AfterBookCall(t, r, user, side) ==
    LET t1 == handleTrades([t EXCEPT !.eng = r.eng], r.out,
                           [have |-> TRUE, user |-> user, side |-> side])
    IN [ t |-> IF r.ret # 0 THEN [t1 EXCEPT !.owner_ = MapPut(@, r.ret, user)]
               ELSE t1,
         out |-> r.out, ret |-> r.ret ]

\* MatchingEngine::newLimit(SymbolId, UserId, ...) with user tracking:
\* result [t, out, ret]
newLimitTracked(t, symbol, user, side, price, qty, tif) ==
    IF ~checkRisk(t, user, symbol, side, qty)
    THEN [t |-> t, out |-> << >>, ret |-> 0]
    ELSE AfterBookCall(t, newLimit(t.eng, symbol, side, price, qty, tif), user, side)

\* MatchingEngine::newMarket(SymbolId, UserId, ...) with user tracking
newMarketTracked(t, symbol, user, side, qty) ==
    IF ~checkRisk(t, user, symbol, side, qty)
    THEN [t |-> t, out |-> << >>, ret |-> 0]
    ELSE AfterBookCall(t, newMarket(t.eng, symbol, side, qty), user, side)

\* MatchingEngine::replace(SymbolId, ...) with user tracking: cancel, then
\* newLimit for UserId{1}
replaceTracked(t, symbol, old_id, side, price, qty, tif) ==
    newLimitTracked([t EXCEPT !.eng = cancelSymbol(t.eng, symbol, old_id).eng],
                    symbol, 1, side, price, qty, tif)

\* MatchingEngine::processInternal with user tracking: result [t, out, ret]
processInternalTracked(t, ie) ==
    CASE ie.type = "NewLimit" ->
           newLimitTracked(t, ie.symbol, ie.user_id, ie.side, ie.price, ie.qty, ie.tif)
      [] ie.type = "NewMarket" ->
           newMarketTracked(t, ie.symbol, ie.user_id, ie.side, ie.qty)
      [] ie.type = "Cancel" ->
           [ t |-> [t EXCEPT !.eng = cancelSymbol(t.eng, ie.symbol, ie.id).eng],
             out |-> << >>, ret |-> 0 ]
      [] ie.type = "Replace" ->
           LET user == IF ie.id \in DOMAIN t.owner_ THEN t.owner_[ie.id]
                       ELSE ie.user_id
               r == replaceTracked(t, ie.symbol, ie.id, ie.side, ie.price,
                                   ie.qty, ie.tif)
               owned == IF r.ret # 0 THEN MapPut(r.t.owner_, r.ret, user)
                        ELSE r.t.owner_
           IN [r EXCEPT !.t.owner_ = MapErase(owned, ie.id)]
      [] OTHER -> [t |-> t, out |-> << >>, ret |-> 0]

\* MatchingEngine::process with user tracking
processTracked(t, ev) ==
    LET s == getOrCreate(t.eng, ev.symbol)
    IN processInternalTracked([t EXCEPT !.eng = s.eng], [ev EXCEPT !.symbol = s.id])

\* MatchingEngine::setMaxPosition
setMaxPosition(t, limit) == [t EXCEPT !.max_abs_position_ = limit]

(* ------------------------- observations of a book ---------------------- *)

OwnSide(b, side) == IF side = "Buy" THEN b.bids_ ELSE b.asks_
OppSide(b, side) == IF side = "Buy" THEN b.asks_ ELSE b.bids_

\* the orders resting on a side, each with the price of its level and its
\* position in the level's FIFO
Resting(side) ==
    UNION { { [o |-> side[l].orders[k], px |-> side[l].price, pos |-> k] :
              k \in 1..Len(side[l].orders) } : l \in 1..Len(side) }

RestingIds(b) == { x.o.id : x \in Resting(b.bids_) \cup Resting(b.asks_) }

RECURSIVE SumQty(_)
SumQty(s) == IF Len(s) = 0 THEN 0 ELSE s[1].qty + SumQty(Tail(s))

RECURSIVE SumResting(_)
SumResting(S) ==
    IF S = {} THEN 0
    ELSE LET x == CHOOSE y \in S : TRUE IN x.o.qty + SumResting(S \ {x})

\* the remaining quantity of the resting order id, 0 when id does not rest
RestingQty(b, id) ==
    SumResting({ x \in Resting(b.bids_) \cup Resting(b.asks_) : x.o.id = id })

\* the sum of total_qty over all levels of a side
RECURSIVE SumTotals(_)
SumTotals(side) ==
    IF Len(side) = 0 THEN 0 ELSE side[1].total_qty + SumTotals(Tail(side))

(* ---------------------------- state machine ---------------------------- *)

VARIABLES
    \* one book, driven directly
    book,        \* the OrderBook of one symbol
    prev,        \* the book as it was when the recorded operation was called
    lastOp,      \* the recorded operation: its arguments, what it returned, and
                 \* in res what its callback could see at each trade, or what
                 \* the queries answered
    trades,      \* the trades the callback received during the recorded operation
    delivered,   \* count and quantity of all trades the callback received so far
    ledger,      \* resting quantity entered, less traded away, less cancelled
    \* the MatchingEngine
    eng,         \* the engine: symbol index and books
    prevEng,     \* the engine as it was when the recorded call was made
    engOp,       \* the recorded engine call: its arguments and what it returned
    cancelledOk, \* per symbol and order id, how many cancels returned true so far
    passed,      \* the distinct names passed to getOrCreate, in order of first use
    userTrades,  \* the trades the user's callback has received, in order
    \* the AsyncMatchingEngine
    queue_,      \* the events in the SPSC queue, oldest first
    running_,    \* the atomic flag stop() clears
    producer,    \* the calling thread: where it is, and the event it is pushing
    worker,      \* the worker thread: where it is in runLoop, its ie, how it left
    processed,   \* the events handed to processInternal, in order
    submitted,   \* the events whose submit call has returned, in order
    stopLog,     \* stop calls made and returned; events submitted before the
                 \* first; sentinels pushed; joins of the worker
    \* the MatchingEngine with user tracking
    tracked,     \* the engine, owner_, user_positions_, max_abs_position_
    prevTracked, \* the engine as it was when the recorded call was made
    trackOp,     \* the recorded call: its event and what the call returned
    submitter,   \* per symbol and order id, the user whose order it is
    netBought    \* per user and symbol, bought less sold by the user's orders

bookVars == << book, prev, lastOp, trades, delivered, ledger >>
engVars == << eng, prevEng, engOp, cancelledOk, passed, userTrades >>
asyncVars == << queue_, running_, producer, worker, processed, submitted, stopLog >>
trackVars == << tracked, prevTracked, trackOp, submitter, netBought >>

NoOp == [ op |-> "none", side |-> "Buy", price |-> 0, qty |-> 0, tif |-> "GFD",
          id |-> 0, ret |-> 0, ok |-> FALSE, res |-> << >> ]

NoEngOp ==
    [ op |-> "none", name |-> "", symbol |-> NoSymbol, id |-> 0, ok |-> FALSE,
      type |-> "None", ret |-> NoSymbol, res |-> << >> ]

\* the symbol ids of the names callers use, and the order ids the books of
\* the engine issue, with the first they do not
SymbolIds == {0, 1}
OrderIds == 1..(MaxEngineOrders + 1)

EngInit ==
    /\ eng = NewEngine
    /\ prevEng = NewEngine
    /\ engOp = NoEngOp
    /\ cancelledOk = [p \in SymbolIds \X OrderIds |-> 0]
    /\ passed = << >>
    /\ userTrades = << >>

\* a value-initialised InternalEvent that is no event of the run; seq is the
\* number of the submit call that carried an event, 0 for any other event
NoEvent ==
    [ type |-> "None", symbol |-> 0, side |-> "Buy", price |-> 0, qty |-> 0,
      tif |-> "GFD", id |-> 0, user_id |-> 0, seq |-> 0 ]

\* the calling thread outside any call
Idle == [pc |-> "idle", ie |-> NoEvent, name |-> ""]

AsyncInit ==
    /\ queue_ = << >>
    /\ running_ = TRUE
    /\ producer = Idle
    /\ worker = [pc |-> "pop", ie |-> NoEvent, exit |-> "none"]
    /\ processed = << >>
    /\ submitted = << >>
    /\ stopLog = [calls |-> 0, returns |-> 0, before |-> 0, pushed |-> 0, joined |-> 0]

\* the users of a run; 1 is the UserId an Event has by default
Users == {1, 2}

NoTrackOp == [op |-> "none", type |-> "None", rejected |-> FALSE, ret |-> 0]

TrackInit ==
    /\ tracked = NewTrackedEngine
    /\ prevTracked = NewTrackedEngine
    /\ trackOp = NoTrackOp
    /\ submitter = [p \in {} |-> 0]
    /\ netBought = [p \in Users \X SymbolIds |-> 0]

BookInit ==
    /\ book = NewBook(0, "FOO")
    /\ prev = NewBook(0, "FOO")
    /\ lastOp = NoOp
    /\ trades = << >>
    /\ delivered = [count |-> 0, qty |-> 0]
    /\ ledger = 0

\* (A call's result is bound with \E over a one-element set, which evaluates
\* the call once.)
\* The history variables hold one call, the last of the run: a call either
\* leaves them blank and the run goes on, or fills them in and the run is
\* looked at as it stands. Every reachable book is the prev of every call.
Record(rec, b, op, out) ==
    /\ prev' = IF rec THEN b ELSE NewBook(0, "FOO")
    /\ lastOp' = IF rec THEN op ELSE NoOp
    /\ trades' = IF rec THEN out ELSE << >>

\* the quantity of an order that its trades left over and that rests
Residual(qty, tif, out) ==
    IF tif = "GFD" /\ qty - SumQty(out) > 0 THEN qty - SumQty(out) ELSE 0

\* What a caller sees of a call, added to the running totals: the trades
\* its callback received, the residual the call left resting, and the
\* quantity a cancel that returned true took off the book.
Tally(out, rested, removed) ==
    \E traded \in {SumQty(out)} :
      /\ delivered' = [ count |-> delivered.count + Len(out),
                        qty |-> delivered.qty + traded ]
      /\ ledger' = ledger + rested - traded - removed

\* ids a caller passes to cancel and replace: every id that rests, and one
\* that does not (all ids absent from the index take the same path)
IdsToTry(b) == (DOMAIN b.index_) \cup {b.next_id_}

\* ids a caller passes to the engine's cancel for a book: every id the book
\* has issued, resting or not, and the first it has not issued
CancelIds(b) == 1..b.next_id_

AddLimit ==
    /\ lastOp.op = "none"
    /\ book.next_id_ <= MaxOrders
    /\ \E side \in Sides, price \in Prices, qty \in Qtys, tif \in TimeInForces,
          rec \in BOOLEAN :
         \E r \in {addLimit(book, side, price, qty, tif)} :
         /\ book' = r.book
         /\ Record(rec, book,
                   [ NoOp EXCEPT !.op = "addLimit", !.side = side, !.price = price,
                                 !.qty = qty, !.tif = tif, !.ret = r.ret,
                                 !.res = r.seen ],
                   r.out)
         /\ Tally(r.out, Residual(qty, tif, r.out), 0)
         /\ UNCHANGED << engVars, asyncVars, trackVars >>

AddMarket ==
    /\ lastOp.op = "none"
    /\ book.next_id_ <= MaxOrders
    /\ \E side \in Sides, qty \in Qtys, rec \in BOOLEAN :
         \E r \in {addMarket(book, side, qty)} :
         /\ book' = r.book
         /\ Record(rec, book,
                   [ NoOp EXCEPT !.op = "addMarket", !.side = side,
                                 !.price = marketPrice(side), !.qty = qty,
                                 !.tif = "IOC", !.ret = r.ret, !.res = r.seen ],
                   r.out)
         /\ Tally(r.out, 0, 0)
         /\ UNCHANGED << engVars, asyncVars, trackVars >>

Cancel ==
    /\ lastOp.op = "none"
    /\ \E id \in IdsToTry(book), rec \in BOOLEAN :
         \E r \in {cancel(book, id)} :
         /\ book' = r.book
         /\ Record(rec, book, [NoOp EXCEPT !.op = "cancel", !.id = id, !.ok = r.ret],
                   << >>)
         /\ Tally(<< >>, 0, IF r.ret THEN RestingQty(book, id) ELSE 0)
    /\ UNCHANGED << engVars, asyncVars, trackVars >>

Replace ==
    /\ lastOp.op = "none"
    /\ book.next_id_ <= MaxOrders
    /\ \E id \in IdsToTry(book) :
         \E removed \in {IF cancel(book, id).ret THEN RestingQty(book, id) ELSE 0},
            side \in Sides, price \in Prices, qty \in Qtys,
            tif \in TimeInForces, rec \in BOOLEAN :
           \E r \in {replace(book, id, side, price, qty, tif)} :
           /\ book' = r.book
           /\ Record(rec, book,
                     [ NoOp EXCEPT !.op = "replace", !.id = id, !.side = side,
                                   !.price = price, !.qty = qty, !.tif = tif,
                                   !.ret = r.ret, !.res = r.seen ],
                     r.out)
           /\ Tally(r.out, Residual(qty, tif, r.out), removed)
    /\ UNCHANGED << engVars, asyncVars, trackVars >>

vars == << bookVars, engVars, asyncVars, trackVars >>

Init == BookInit /\ EngInit /\ AsyncInit /\ TrackInit

Next == AddLimit \/ AddMarket \/ Cancel \/ Replace

Spec == Init /\ [][Next]_vars

(* ------------- the book, over the whole width of its arguments ---------- *)
(* The book is driven as by Spec, with limit prices from both ends of the   *)
(* range of Price and from either side of zero, and with quantities that    *)
(* are negative, zero and positive; the top-of-book queries are calls too.  *)

\* the lowest and the highest Price, a negative and a positive one
WidePrices == {numeric_limits_min, 0 - 3, 2, numeric_limits_max}
\* requested quantities, with a negative one
WideQtys == (0 - 1)..2

AddLimitWide ==
    /\ lastOp.op = "none"
    /\ book.next_id_ <= MaxWideOrders
    /\ \E side \in Sides, price \in WidePrices, qty \in WideQtys,
          tif \in TimeInForces, rec \in BOOLEAN :
         \E r \in {addLimit(book, side, price, qty, tif)} :
         /\ book' = r.book
         /\ Record(rec, book,
                   [ NoOp EXCEPT !.op = "addLimit", !.side = side, !.price = price,
                                 !.qty = qty, !.tif = tif, !.ret = r.ret,
                                 !.res = r.seen ],
                   r.out)
         /\ Tally(r.out, Residual(qty, tif, r.out), 0)
         /\ UNCHANGED << engVars, asyncVars, trackVars >>

AddMarketWide ==
    /\ lastOp.op = "none"
    /\ book.next_id_ <= MaxWideOrders
    /\ \E side \in Sides, qty \in WideQtys, rec \in BOOLEAN :
         \E r \in {addMarket(book, side, qty)} :
         /\ book' = r.book
         /\ Record(rec, book,
                   [ NoOp EXCEPT !.op = "addMarket", !.side = side,
                                 !.price = marketPrice(side), !.qty = qty,
                                 !.tif = "IOC", !.ret = r.ret, !.res = r.seen ],
                   r.out)
         /\ Tally(r.out, 0, 0)
         /\ UNCHANGED << engVars, asyncVars, trackVars >>

CancelWide ==
    /\ lastOp.op = "none"
    /\ \E id \in IdsToTry(book) :
         \E r \in {cancel(book, id)} :
         /\ book' = r.book
         /\ Record(FALSE, book, NoOp, << >>)
         /\ Tally(<< >>, 0, IF r.ret THEN RestingQty(book, id) ELSE 0)
    /\ UNCHANGED << engVars, asyncVars, trackVars >>

\* the five queries of the top of the book, called one after the other on
\* the book as it stands; the call is always the recorded one
TopOfBookWide ==
    /\ lastOp.op = "none"
    /\ \E mid \in midPriceOutcomes(book) :
         /\ book' = book
         /\ Record(TRUE, book,
                   [ NoOp EXCEPT !.op = "topOfBook",
                                 !.res = [ best_bid |-> bestBid(book),
                                           bid_size |-> bestBidSize(book),
                                           best_ask |-> bestAsk(book),
                                           ask_size |-> bestAskSize(book),
                                           mid_price |-> mid ] ],
                   << >>)
    /\ UNCHANGED << delivered, ledger, engVars, asyncVars, trackVars >>

WideNext == AddLimitWide \/ AddMarketWide \/ CancelWide \/ TopOfBookWide

SpecWide == Init /\ [][WideNext]_vars

(* ------------------------ the engine's state machine --------------------- *)

SymbolNames == {"FOO", "BAR"}

\* what a book of the engine has issued so far
Issued(b) == IF b = NoBook THEN 0 ELSE b.next_id_ - 1

RECURSIVE TotalIssued(_)
TotalIssued(books) ==
    IF Len(books) = 0 THEN 0 ELSE Issued(books[1]) + TotalIssued(Tail(books))

\* symbol ids a caller passes: every registered one, and the first that is not
SymbolIdsToTry(e) == 0..Len(e.names_)

\* order ids a caller passes to the engine's cancel for a symbol: those of
\* CancelIds if the symbol has a book, 1 if it has none
EngineCancelIds(e, symbol) ==
    IF symbol >= 0 /\ symbol < Len(e.books_) /\ e.books_[symbol + 1] # NoBook
    THEN CancelIds(e.books_[symbol + 1])
    ELSE {1}

RecordEng(rec, e, op) ==
    /\ prevEng' = IF rec THEN e ELSE NewEngine
    /\ engOp' = IF rec THEN op ELSE NoEngOp

\* one more cancel of order id of the symbol's book has returned true
CountCancel(symbol, id, ok) ==
    cancelledOk' = IF ok THEN [cancelledOk EXCEPT ![<< symbol, id >>] = @ + 1]
                   ELSE cancelledOk

\* one more name has been passed to getOrCreate
Pass(name) ==
    passed' = IF \E k \in 1..Len(passed) : passed[k] = name THEN passed
              ELSE Append(passed, name)

ResolveSymbol ==
    /\ engOp.op = "none"
    /\ \E name \in SymbolNames, rec \in BOOLEAN :
         \E r \in {resolveSymbol(eng, name)} :
           /\ eng' = r.eng
           /\ RecordEng(rec, eng, [ NoEngOp EXCEPT !.op = "resolveSymbol",
                                      !.name = name, !.ret = r.id ])
           /\ Pass(name)
    /\ UNCHANGED << cancelledOk, userTrades, bookVars, asyncVars, trackVars >>

NewLimit ==
    /\ engOp.op = "none"
    /\ TotalIssued(eng.books_) < MaxEngineOrders
    /\ \E name \in SymbolNames, side \in Sides, price \in Prices, qty \in Qtys,
          tif \in TimeInForces :
         LET s == getOrCreate(eng, name) IN
         /\ eng' = newLimit(s.eng, s.id, side, price, qty, tif).eng
         /\ RecordEng(FALSE, eng, NoEngOp)
         /\ Pass(name)
    /\ UNCHANGED << cancelledOk, userTrades, bookVars, asyncVars, trackVars >>

NewMarket ==
    /\ engOp.op = "none"
    /\ TotalIssued(eng.books_) < MaxEngineOrders
    /\ \E name \in SymbolNames, side \in Sides, qty \in Qtys :
         LET s == getOrCreate(eng, name) IN
         /\ eng' = newMarket(s.eng, s.id, side, qty).eng
         /\ RecordEng(FALSE, eng, NoEngOp)
         /\ Pass(name)
    /\ UNCHANGED << cancelledOk, userTrades, bookVars, asyncVars, trackVars >>

CancelByName ==
    /\ engOp.op = "none"
    /\ \E name \in SymbolNames, rec \in BOOLEAN :
         \E id \in EngineCancelIds(eng, find(eng.to_id_, name)) :
           LET r == cancelByName(eng, name, id) IN
           /\ eng' = r.eng
           /\ RecordEng(rec, eng, [ NoEngOp EXCEPT !.op = "cancelByName",
                                      !.name = name, !.id = id, !.ok = r.ret ])
           /\ CountCancel(find(eng.to_id_, name), id, r.ret)
    /\ UNCHANGED << passed, userTrades, bookVars, asyncVars, trackVars >>

CancelSymbol ==
    /\ engOp.op = "none"
    /\ \E symbol \in SymbolIdsToTry(eng), rec \in BOOLEAN :
         \E id \in EngineCancelIds(eng, symbol) :
           LET r == cancelSymbol(eng, symbol, id) IN
           /\ eng' = r.eng
           /\ RecordEng(rec, eng, [ NoEngOp EXCEPT !.op = "cancelSymbol",
                                      !.symbol = symbol, !.id = id, !.ok = r.ret ])
           /\ CountCancel(symbol, id, r.ret)
    /\ UNCHANGED << passed, userTrades, bookVars, asyncVars, trackVars >>

\* MatchingEngine::replace(const std::string&, ...)
ReplaceByName ==
    /\ engOp.op = "none"
    /\ TotalIssued(eng.books_) < MaxEngineOrders
    /\ \E name \in SymbolNames, side \in Sides, price \in Prices, qty \in Qtys,
          tif \in TimeInForces :
         \E id \in EngineCancelIds(eng, find(eng.to_id_, name)) :
           LET s == getOrCreate(eng, name) IN
           /\ eng' = replaceSymbol(s.eng, s.id, id, side, price, qty, tif).eng
           /\ RecordEng(FALSE, eng, NoEngOp)
           /\ CountCancel(s.id, id, cancelSymbol(s.eng, s.id, id).ret)
           /\ Pass(name)
    /\ UNCHANGED << userTrades, bookVars, asyncVars, trackVars >>

\* the types of an event
InternalTypes == {"NewLimit", "NewMarket", "Cancel", "Replace", "Stop"}

\* a value-initialised InternalEvent of a type for a symbol
EventOf(type, symbol) == [NoEvent EXCEPT !.type = type, !.symbol = symbol]

\* the events a caller hands to processInternal for a symbol, each with the
\* fields its type reads: GFD limit orders and market orders for one unit,
\* cancels of the ids of EngineCancelIds, replaces of those by one unit at
\* the lowest price, and Stop
EngineEvents(e, symbol) ==
    { [EventOf("NewLimit", symbol) EXCEPT !.side = side, !.price = price, !.qty = 1] :
        side \in Sides, price \in Prices }
    \cup { [EventOf("NewMarket", symbol) EXCEPT !.side = side, !.qty = 1] :
             side \in Sides }
    \cup { [EventOf("Cancel", symbol) EXCEPT !.id = id] :
             id \in EngineCancelIds(e, symbol) }
    \cup { [EventOf("Replace", symbol) EXCEPT !.side = side, !.price = 1,
                                             !.qty = 1, !.id = id] :
             side \in Sides, id \in EngineCancelIds(e, symbol) }
    \cup { EventOf("Stop", symbol) }

\* whether the cancel inside processInternal, if there is one, finds its order
CancelOf(e, ie) ==
    /\ ie.type \in {"Cancel", "Replace"}
    /\ cancelSymbol(e, ie.symbol, ie.id).ret

\* the symbol ids of the events handed to processInternal: those
\* SymbolIndex has issued and the first it has not, which nothing keeps a
\* caller from passing
EventSymbolIds(e, type) == SymbolIdsToTry(e)

\* MatchingEngine::processInternal, called with an InternalEvent; the call
\* is always the recorded one
ProcessInternal ==
    /\ engOp.op = "none"
    /\ \E symbol \in SymbolIdsToTry(eng) :
         \E ie \in EngineEvents(eng, symbol) :
           /\ symbol \in EventSymbolIds(eng, ie.type)
           /\ ie.type \in {"NewLimit", "NewMarket", "Replace"}
                => TotalIssued(eng.books_) < MaxEngineOrders
           /\ \E r \in {processInternal(eng, ie)} :
                \E read \in IF r.eng = Borrowing(r.eng, "") THEN {""} ELSE ReadOutcomes :
                  /\ eng' = Borrowing(r.eng, read)
                  /\ RecordEng(TRUE, eng,
                       [ NoEngOp EXCEPT !.op = "processInternal", !.type = ie.type,
                                        !.symbol = symbol,
                                        !.res = r.out ])
           /\ CountCancel(symbol, ie.id, CancelOf(eng, ie))
    /\ UNCHANGED << passed, userTrades, bookVars, asyncVars, trackVars >>

\* MatchingEngine::process, called with an Event that names its symbol
Process ==
    /\ engOp.op = "none"
    /\ \E name \in SymbolNames :
         \E s \in {getOrCreate(eng, name)} :
           \E ie \in EngineEvents(s.eng, s.id) :
             /\ ie.type \in {"NewLimit", "NewMarket", "Replace"}
                  => TotalIssued(eng.books_) < MaxEngineOrders
             /\ eng' = processInternal(s.eng, ie).eng
             /\ RecordEng(FALSE, eng, NoEngOp)
             /\ CountCancel(s.id, ie.id, CancelOf(s.eng, ie))
             /\ Pass(name)
    /\ UNCHANGED << userTrades, bookVars, asyncVars, trackVars >>

\* the queries topOfBook and bookStats of a symbol, by SymbolId or by name:
\* the recorded result is what each of the two returned
QueryById ==
    /\ engOp.op = "none"
    /\ \E symbol \in SymbolIdsToTry(eng) :
         /\ eng' = eng
         /\ RecordEng(TRUE, eng,
              [ NoEngOp EXCEPT !.op = "queryById", !.symbol = symbol,
                               !.res = [ tob |-> topOfBook(eng, symbol),
                                         stats |-> bookStats(eng, symbol) ] ])
    /\ UNCHANGED << cancelledOk, passed, userTrades, bookVars, asyncVars, trackVars >>

QueryByName ==
    /\ engOp.op = "none"
    /\ \E name \in SymbolNames :
         /\ eng' = eng
         /\ RecordEng(TRUE, eng,
              [ NoEngOp EXCEPT !.op = "queryByName", !.name = name,
                               !.res = [ tob |-> topOfBookByName(eng, name),
                                         stats |-> bookStatsByName(eng, name) ] ])
    /\ UNCHANGED << cancelledOk, passed, userTrades, bookVars, asyncVars, trackVars >>

EngineNext ==
    ResolveSymbol \/ NewLimit \/ NewMarket \/ CancelByName \/ CancelSymbol
      \/ ReplaceByName \/ ProcessInternal \/ Process \/ QueryById
      \/ QueryByName

\* The engine of SpecEngine is a MatchingEngine constructed without a
\* callback (its default argument): handleTrade forwards nothing.
SpecEngine == Init /\ [][EngineNext]_vars

(* -------------------- the engine with a user callback ------------------- *)
(* A MatchingEngine constructed with a callback is handed Events through   *)
(* process; userTrades is what the callback has received.                  *)

\* the events handed to process for a symbol: GFD limit orders of one or two
\* units and market orders of two
CallbackEvents(e, symbol) ==
    { [EventOf("NewLimit", symbol) EXCEPT !.side = side, !.price = price, !.qty = qty] :
        side \in Sides, price \in Prices, qty \in {1, 2} }
    \cup { [EventOf("NewMarket", symbol) EXCEPT !.side = side, !.qty = 2] :
             side \in Sides }

\* MatchingEngine::process, called with an Event that names its symbol
ProcessCallback ==
    /\ \E name \in SymbolNames :
         \E s \in {getOrCreate(eng, name)} :
           \E ie \in CallbackEvents(s.eng, s.id) :
             /\ ie.type \in {"NewLimit", "NewMarket"}
                  => TotalIssued(eng.books_) < MaxCallbackOrders
             /\ \E r \in {processInternal(s.eng, ie)} :
                  /\ eng' = r.eng
                  /\ userTrades' = handleTradesPlain(TRUE, userTrades, r.out)
    /\ UNCHANGED << prevEng, engOp, cancelledOk, passed >>
    /\ UNCHANGED << bookVars, asyncVars, trackVars >>

CallbackNext == ProcessCallback

SpecCallback == Init /\ [][CallbackNext]_vars

(* --------------------------- AsyncMatchingEngine ------------------------- *)
(* One calling thread (the single producer: it submits and it stops) and   *)
(* the worker thread running runLoop. A step is one access to what the two *)
(* threads share: a push or a pop on the queue, a load or a                *)
(* compare-exchange on running_, and a call into engine_: resolveSymbol on *)
(* the calling thread, processInternal on the worker. A push or a pop that *)
(* fails is followed by a yield and is tried again: the thread stays where *)
(* it is. A call into engine_ is not atomic: it is under way from the step *)
(* that enters it to the step that completes it. When the two calls under  *)
(* way conflict on the SymbolIndex (RacingAccess) the behaviour is         *)
(* undefined and the run is followed no further.                           *)

EventTypes == {"NewLimit", "Stop"}

\* the event a caller submits: a GFD order of one unit at price 1, or a Stop;
\* the caller's orders alternate between buying and selling, so that two on
\* one symbol trade
AsyncEvent(type, symbol, seq) ==
    [EventOf(type, symbol) EXCEPT !.side = IF seq % 2 = 1 THEN "Buy" ELSE "Sell",
                                  !.price = 1, !.qty = 1, !.user_id = 1, !.seq = seq]

\* variant of push: a full queue drops its oldest element for the new one
push_overwrites(q, e) ==
    IF Len(q) < QueueCap THEN [ok |-> TRUE, q |-> Append(q, e)]
    ELSE [ok |-> TRUE, q |-> Append(Tail(q), e)]

\* variant of push: the element is stored ahead of those waiting
push_atFront(q, e) ==
    IF Len(q) < QueueCap THEN [ok |-> TRUE, q |-> << e >> \o q]
    ELSE [ok |-> FALSE, q |-> q]

\* spsc_queue::push: false, and nothing stored, when the queue is full
push(q, e) ==
    IF Len(q) < QueueCap THEN [ok |-> TRUE, q |-> Append(q, e)]
    ELSE [ok |-> FALSE, q |-> q]

\* variant of pop: the newest element is taken
pop_newest(q) ==
    IF Len(q) > 0 THEN [ok |-> TRUE, e |-> q[Len(q)], q |-> SubSeq(q, 1, Len(q) - 1)]
    ELSE [ok |-> FALSE, e |-> NoEvent, q |-> q]

\* spsc_queue::pop: the oldest element, false when the queue is empty
pop(q) ==
    IF Len(q) > 0 THEN [ok |-> TRUE, e |-> Head(q), q |-> Tail(q)]
    ELSE [ok |-> FALSE, e |-> NoEvent, q |-> q]

\* the sentinel stop() pushes: a value-initialised InternalEvent of type Stop
Sentinel == [NoEvent EXCEPT !.type = "Stop"]

\* variant of compareExchange: the flag is exchanged whatever it held
compareExchange_blind(flag, expected, desired) == [ok |-> TRUE, flag |-> desired]

\* std::atomic<bool>::compare_exchange_strong: result [ok, flag]
compareExchange(flag, expected, desired) ==
    IF flag = expected THEN [ok |-> TRUE, flag |-> desired]
    ELSE [ok |-> FALSE, flag |-> flag]

\* variant of isStop: only the sentinel of stop() ends the worker
isStop_sentinelOnly(ie) == ie = Sentinel

\* runLoop's test of a popped event: if(ie.type == EventType::Stop) return
isStop(ie) == ie.type = "Stop"

\* variant of leavesLoop: the worker leaves once the queue is empty
leavesLoop_whenEmpty(running) == TRUE

\* runLoop's test after an empty pop: break when running_ is false
leavesLoop(running) == ~running

\* resolveSymbol is under way on the calling thread and will enter a new
\* name: getOrCreate pushes onto names_ and inserts into to_id_
ProducerWritesIndex ==
    /\ producer.pc = "resolve"
    /\ find(eng.to_id_, producer.name) = NoSymbol

\* processInternal is under way on the worker and will create the book of
\* its symbol: getOrCreateBook reads names_ through nameCStr
WorkerReadsIndex ==
    /\ worker.pc = "process"
    /\ worker.ie.type \in {"NewLimit", "NewMarket", "Replace"}
    /\ bookStats(eng, worker.ie.symbol) = << >>

\* both are under way at once, with nothing ordering the write to names_
\* and the read of it: a data race
RacingAccess == ProducerWritesIndex /\ WorkerReadsIndex

\* submit(const Event&) is called: the event is built and resolveSymbol
\* entered
SubmitEvent ==
    /\ producer.pc = "idle"
    /\ Len(submitted) < MaxSubmits
    /\ \E type \in EventTypes, name \in SymbolNames :
         producer' = [ pc |-> "resolve",
                       ie |-> AsyncEvent(type, 0, Len(submitted) + 1),
                       name |-> name ]
    /\ UNCHANGED << queue_, running_, worker, processed, submitted, stopLog >>
    /\ UNCHANGED << bookVars, engVars, trackVars >>

\* resolveSymbol returns the symbol's id, and the push loop is entered
SubmitResolve ==
    /\ producer.pc = "resolve"
    /\ ~RacingAccess
    /\ \E s \in {resolveSymbol(eng, producer.name)} :
         /\ eng' = s.eng
         /\ producer' = [ pc |-> "submit",
                          ie |-> [producer.ie EXCEPT !.symbol = s.id],
                          name |-> "" ]
    /\ Pass(producer.name)
    /\ UNCHANGED << queue_, running_, worker, processed, submitted, stopLog >>
    /\ UNCHANGED << prevEng, engOp, cancelledOk, userTrades, bookVars, trackVars >>

\* submit(const InternalEvent&) is called with the id of a symbol that an
\* earlier call resolved: the push loop is entered
SubmitInternal ==
    /\ producer.pc = "idle"
    /\ Len(submitted) < MaxSubmits
    /\ \E type \in EventTypes, symbol \in 0..(size(eng.names_) - 1) :
         producer' = [ pc |-> "submit",
                       ie |-> AsyncEvent(type, symbol, Len(submitted) + 1),
                       name |-> "" ]
    /\ UNCHANGED << queue_, running_, worker, processed, submitted, stopLog >>
    /\ UNCHANGED << bookVars, engVars, trackVars >>

\* submit's push succeeds and submit returns
SubmitPush ==
    /\ producer.pc = "submit"
    /\ \E r \in {push(queue_, producer.ie)} :
         /\ r.ok
         /\ queue_' = r.q
    /\ submitted' = Append(submitted, producer.ie)
    /\ producer' = Idle
    /\ UNCHANGED << running_, worker, processed, stopLog >>
    /\ UNCHANGED << bookVars, engVars, trackVars >>

\* stop is called: the compare-exchange on running_; a call that finds it
\* false returns at once
Stop ==
    /\ producer.pc = "idle"
    /\ stopLog.calls < MaxStops
    /\ \E r \in {compareExchange(running_, TRUE, FALSE)} :
         /\ running_' = r.flag
         /\ IF r.ok
            THEN /\ producer' = [pc |-> "stopPush", ie |-> Sentinel, name |-> ""]
                 /\ stopLog' = [ stopLog EXCEPT
                                   !.calls = @ + 1,
                                   !.before = IF stopLog.calls = 0
                                              THEN Len(submitted) ELSE @ ]
            ELSE /\ stopLog' = [stopLog EXCEPT !.calls = @ + 1, !.returns = @ + 1]
                 /\ UNCHANGED producer
    /\ UNCHANGED << queue_, worker, processed, submitted >>
    /\ UNCHANGED << bookVars, engVars, trackVars >>

\* stop's push of the sentinel succeeds
StopPush ==
    /\ producer.pc = "stopPush"
    /\ \E r \in {push(queue_, producer.ie)} :
         /\ r.ok
         /\ queue_' = r.q
    /\ producer' = [pc |-> "join", ie |-> NoEvent, name |-> ""]
    /\ stopLog' = [stopLog EXCEPT !.pushed = @ + 1]
    /\ UNCHANGED << running_, worker, processed, submitted >>
    /\ UNCHANGED << bookVars, engVars, trackVars >>

\* if(worker_.joinable()) worker_.join(): join returns when the worker has
\* left runLoop, and stop returns with it; a worker joined before is not
\* joinable
StopJoin ==
    /\ producer.pc = "join"
    /\ IF stopLog.joined = 0
       THEN /\ worker.pc = "done"
            /\ stopLog' = [stopLog EXCEPT !.returns = @ + 1, !.joined = @ + 1]
       ELSE stopLog' = [stopLog EXCEPT !.returns = @ + 1]
    /\ producer' = Idle
    /\ UNCHANGED << queue_, running_, worker, processed, submitted >>
    /\ UNCHANGED << bookVars, engVars, trackVars >>

\* runLoop's queue_.pop(ie): an event is taken and, if it is a Stop, the
\* worker returns; else processInternal is entered; an empty queue ends the
\* inner loop
WorkerPop ==
    /\ worker.pc = "pop"
    /\ \E r \in {pop(queue_)} :
         /\ queue_' = r.q
         /\ worker' = IF ~r.ok THEN [worker EXCEPT !.pc = "check"]
                      ELSE IF isStop(r.e)
                           THEN [pc |-> "done", ie |-> r.e, exit |-> "stop"]
                           ELSE [worker EXCEPT !.pc = "process", !.ie = r.e]
    /\ UNCHANGED << running_, producer, processed, submitted, stopLog >>
    /\ UNCHANGED << bookVars, engVars, trackVars >>

\* engine_.processInternal(ie) returns
WorkerProcess ==
    /\ worker.pc = "process"
    /\ ~RacingAccess
    /\ \E r \in {processInternal(eng, worker.ie)} :
         /\ eng' = r.eng
         /\ userTrades' = handleTradesPlain(TRUE, userTrades, r.out)
    /\ processed' = Append(processed, worker.ie)
    /\ worker' = [worker EXCEPT !.pc = "pop"]
    /\ UNCHANGED << queue_, running_, producer, submitted, stopLog >>
    /\ UNCHANGED << prevEng, engOp, cancelledOk, passed, bookVars, trackVars >>

\* runLoop's running_.load(): break if false, else yield and pop again
WorkerCheck ==
    /\ worker.pc = "check"
    /\ worker' = IF leavesLoop(running_)
                 THEN [worker EXCEPT !.pc = "done", !.exit = "flag"]
                 ELSE [worker EXCEPT !.pc = "pop"]
    /\ UNCHANGED << queue_, running_, producer, processed, submitted, stopLog >>
    /\ UNCHANGED << bookVars, engVars, trackVars >>

AsyncNext ==
    SubmitEvent \/ SubmitResolve \/ SubmitInternal \/ SubmitPush
      \/ Stop \/ StopPush \/ StopJoin
      \/ WorkerPop \/ WorkerProcess \/ WorkerCheck

SpecAsync == Init /\ [][AsyncNext]_vars

\* Both threads are scheduled again and again: a thread that is inside a
\* call or inside runLoop takes its next step if that step stays possible.
\* Whether and when submit and stop are called is the caller's choice.
FairSpecAsync ==
    /\ SpecAsync
    /\ WF_vars(SubmitResolve) /\ WF_vars(SubmitPush)
    /\ WF_vars(StopPush) /\ WF_vars(StopJoin)
    /\ WF_vars(WorkerPop) /\ WF_vars(WorkerProcess) /\ WF_vars(WorkerCheck)

(* ------------------ the engine with user tracking at work --------------- *)
(* Callers hand Events to process: the symbol is resolved, then            *)
(* processInternal runs. The recorded call, if any, is that processInternal *)
(* call, recorded when its risk check refused the order. Beside the engine *)
(* the run keeps, per symbol and order id, the user whose order it is (for *)
(* the order a Replace enters: the user of the order it replaces, else the *)
(* user of the event), and per user and symbol what the user's orders      *)
(* bought less what they sold.                                             *)

EntryTypes == {"NewLimit", "NewMarket", "Replace"}

\* the events a user hands to process for a name: GFD limit orders at price
\* 1 and market orders of one or two units, cancels of the ids of
\* EngineCancelIds, and replaces of those
TrackedEvents(t, name, user) ==
    LET base == [NoEvent EXCEPT !.symbol = name, !.user_id = user, !.price = 1]
        ids == EngineCancelIds(t.eng, find(t.eng.to_id_, name))
    IN { [base EXCEPT !.type = type, !.side = side, !.qty = qty] :
           type \in {"NewLimit", "NewMarket"}, side \in Sides, qty \in {1, 2} }
       \cup { [base EXCEPT !.type = "Cancel", !.id = id] : id \in ids }
       \cup { [base EXCEPT !.type = "Replace", !.side = side, !.qty = qty, !.id = id] :
                side \in Sides, qty \in {1, 2}, id \in ids }

\* the user whose order an order-entry event enters
TrueUser(ev, symbol) ==
    IF ev.type = "Replace" /\ << symbol, ev.id >> \in DOMAIN submitter
    THEN submitter[<< symbol, ev.id >>] ELSE ev.user_id

\* the user checkRisk is called for
RiskUser(ev) == IF ev.type = "Replace" THEN 1 ELSE ev.user_id

\* what the users' orders bought less sold, after the trades of out
RECURSIVE Settle(_, _, _)
Settle(exp, out, sub) ==
    IF Len(out) = 0 THEN exp
    ELSE LET tr == Head(out)
             b == << sub[<< tr.symbol_id, tr.buy_id >>], tr.symbol_id >>
             a == << sub[<< tr.symbol_id, tr.sell_id >>], tr.symbol_id >>
             e1 == [exp EXCEPT ![b] = @ + tr.qty]
         IN Settle([e1 EXCEPT ![a] = @ - tr.qty], Tail(out), sub)

\* MatchingEngine::process, called with an Event
ProcessTracked ==
    /\ trackOp.op = "none"
    /\ \E name \in SymbolNames, user \in Users :
         \E ev \in TrackedEvents(tracked, name, user) :
           \E s \in {getOrCreate(tracked.eng, name)} :
             \E r \in {processInternalTracked([tracked EXCEPT !.eng = s.eng],
                                              [ev EXCEPT !.symbol = s.id])} :
               \E sub \in { IF ev.type \in EntryTypes /\ r.ret # 0
                            THEN MapPut(submitter, << s.id, r.ret >>, TrueUser(ev, s.id))
                            ELSE submitter } :
                 /\ ev.type \in EntryTypes
                      => TotalIssued(tracked.eng.books_) < MaxTrackedOrders
                 /\ tracked' = r.t
                 /\ submitter' = sub
                 /\ netBought' = Settle(netBought, r.out, sub)
                 /\ \E rec \in BOOLEAN :
                      /\ rec => /\ ev.type \in EntryTypes
                                /\ ~checkRisk(tracked, RiskUser(ev), s.id, ev.side, ev.qty)
                      /\ prevTracked' = IF rec THEN [tracked EXCEPT !.eng = s.eng]
                                        ELSE NewTrackedEngine
                      /\ trackOp' = IF rec
                                    THEN [ op |-> "processInternal", type |-> ev.type,
                                           rejected |-> TRUE, ret |-> r.ret ]
                                    ELSE NoTrackOp
    /\ UNCHANGED << bookVars, engVars, asyncVars >>

\* MatchingEngine::setMaxPosition, called once with PositionLimit
SetMaxPosition ==
    /\ trackOp.op = "none"
    /\ tracked.max_abs_position_ # PositionLimit
    /\ tracked' = setMaxPosition(tracked, PositionLimit)
    /\ UNCHANGED << prevTracked, trackOp, submitter, netBought >>
    /\ UNCHANGED << bookVars, engVars, asyncVars >>

TrackingNext == ProcessTracked \/ SetMaxPosition

SpecTracking == Init /\ [][TrackingNext]_vars

(* ------------------------- vocabulary of the claims -------------------- *)

\* the recorded call brought an incoming order to the book
IsOrderOp == lastOp.op \in {"addLimit", "addMarket", "replace"}

\* the recorded call ran addLimit (directly, or as the second half of replace)
IsLimitOp == lastOp.op \in {"addLimit", "replace"}

\* the book the incoming order of the recorded call was matched against: for
\* a replace, the book after its cancel
PreMatch == IF lastOp.op = "replace" THEN cancel(prev, lastOp.id).book ELSE prev

\* the resting and the incoming order of a trade of the recorded call
MakerId(t) == IF lastOp.side = "Buy" THEN t.sell_id ELSE t.buy_id
TakerId(t) == IF lastOp.side = "Buy" THEN t.buy_id ELSE t.sell_id

\* the orders the incoming order could trade with, before its first trade
Makers == Resting(OppSide(PreMatch, lastOp.side))

\* what the trades before the k-th took from the resting order id
FilledBefore(id, k) ==
    SumQty(SelectSeq(SubSeq(trades, 1, k - 1), LAMBDA t : MakerId(t) = id))

RemainingBefore(x, k) == x.o.qty - FilledBefore(x.o.id, k)

\* px is a better price than py for an order resting opposite the incoming one
BetterMakerPrice(px, py) == IF lastOp.side = "Buy" THEN px < py ELSE px > py

\* a resting price the limit price `price` of an incoming order crosses
Crosses(side, price, px) == IF side = "Buy" THEN px <= price ELSE px >= price

(* -------------------------------- claims ------------------------------- *)

\* C1: whenever an operation has returned, every resting bid price is
\* strictly below every resting ask price (the book never rests crossed).
C1_NeverCrossed ==
    \A i \in 1..Len(book.bids_), j \in 1..Len(book.asks_) :
        book.bids_[i].price < book.asks_[j].price

\* an operation traded and left orders resting on both sides
C1_Witness ==
    /\ lastOp.op # "none"
    /\ Len(trades) > 0
    /\ Len(book.bids_) > 0
    /\ Len(book.asks_) > 0

\* C2: price priority. Every trade of an incoming order is between that
\* order and an order that rested on the opposite side, and at the moment of
\* the trade no opposite-side order with a strictly better price has any
\* quantity left.
C2_PricePriority ==
    IsOrderOp =>
      \A k \in 1..Len(trades) :
         /\ TakerId(trades[k]) = lastOp.ret
         /\ \E x \in Makers :
              /\ x.o.id = MakerId(trades[k])
              /\ \A y \in Makers :
                   BetterMakerPrice(y.px, x.px) => RemainingBefore(y, k) = 0

\* an incoming order traded at two price levels, one after the other
C2_Witness ==
    /\ IsOrderOp
    /\ \E k \in 1..Len(trades) : trades[k].price # trades[1].price

\* C3: time priority. A resting order trades only when every order that
\* arrived earlier (smaller id) at its side and price has nothing left, and
\* an order that was filled in part is the head of its level afterwards,
\* with what the trades left of it.
C3_TimePriority ==
    IsOrderOp =>
      /\ \A k \in 1..Len(trades) :
           \A x \in Makers, y \in Makers :
              ( /\ x.o.id = MakerId(trades[k])
                /\ y.px = x.px
                /\ y.o.id < x.o.id )
              => RemainingBefore(y, k) = 0
      /\ \A x \in Makers :
           LET f == FilledBefore(x.o.id, Len(trades) + 1) IN
           (0 < f /\ f < x.o.qty) =>
              LET side == OppSide(book, lastOp.side)
                  at   == FindLevel(side, x.px)
              IN /\ at # 0
                 /\ side[at].orders[1] = [x.o EXCEPT !.qty = x.o.qty - f]

\* the incoming order filled the oldest order of a level and part of the
\* next one, which stays at the head
C3_Witness ==
    /\ IsOrderOp
    /\ \E x \in Makers, y \in Makers :
         /\ y.px = x.px
         /\ y.o.id < x.o.id
         /\ FilledBefore(y.o.id, Len(trades) + 1) = y.o.qty
         /\ 0 < FilledBefore(x.o.id, Len(trades) + 1)
         /\ FilledBefore(x.o.id, Len(trades) + 1) < x.o.qty

\* C4: the price of every trade is the price of the level of the resting
\* order it is matched against, for incoming limit and market orders alike.
C4_TradeAtMakerPrice ==
    IsOrderOp =>
      \A k \in 1..Len(trades) :
         \E x \in Makers :
            /\ x.o.id = MakerId(trades[k])
            /\ trades[k].price = x.px
            /\ trades[k].price = x.o.price

\* a limit order traded at a price that is not its own limit price
C4_Witness ==
    /\ lastOp.op = "addLimit"
    /\ \E k \in 1..Len(trades) : trades[k].price # lastOp.price

\* C5: between operations every level's total_qty is the sum of the
\* remaining quantities of its orders, and no level is empty.
C5_LevelTotals ==
    \A side \in {book.bids_, book.asks_} :
       \A l \in 1..Len(side) :
          /\ Len(side[l].orders) > 0
          /\ side[l].total_qty = SumQty(side[l].orders)

\* a cancel took one order out of a level that keeps another
C5_Witness ==
    /\ lastOp.op = "cancel"
    /\ lastOp.ok
    /\ \E x \in Resting(prev.bids_) \cup Resting(prev.asks_) :
         /\ x.o.id = lastOp.id
         /\ \E y \in Resting(book.bids_) \cup Resting(book.asks_) :
              y.px = x.px /\ y.o.side = x.o.side

\* C6: between operations the index and the resting orders are in
\* bijection: every resting order is indexed under its id with its side, its
\* price and its own node, and every index entry designates an order that is
\* in the level at the recorded side and price.
C6_IndexBijection ==
    /\ \A x \in Resting(book.bids_) \cup Resting(book.asks_) :
         /\ x.o.id \in DOMAIN book.index_
         /\ book.index_[x.o.id] = [side |-> x.o.side, price |-> x.px, it |-> x.o.id]
    /\ \A x \in Resting(book.bids_) : x.o.side = "Buy"
    /\ \A x \in Resting(book.asks_) : x.o.side = "Sell"
    /\ \A id \in DOMAIN book.index_ :
         LET loc == book.index_[id] IN
         Cardinality({ x \in Resting(OwnSide(book, loc.side)) :
                         x.px = loc.price /\ x.o.id = loc.it /\ x.o.id = id }) = 1

\* a trade filled one indexed order completely while others stay indexed
C6_Witness ==
    /\ IsOrderOp
    /\ \E k \in 1..Len(trades) : MakerId(trades[k]) \notin DOMAIN book.index_
    /\ Cardinality(DOMAIN book.index_) >= 2

\* what rests opposite `side` at prices that a limit `price` crosses
CrossingLiquidity(b, side, price) ==
    SumResting({ x \in Resting(OppSide(b, side)) : Crosses(side, price, x.px) })

\* the recorded call left bids, asks, index and stats as they were
BookUntouched ==
    /\ book.bids_ = PreMatch.bids_
    /\ book.asks_ = PreMatch.asks_
    /\ book.index_ = PreMatch.index_
    /\ book.stats_ = PreMatch.stats_

\* C7: fill-or-kill is all or nothing. A FOK addLimit either trades exactly
\* its quantity (it does when that much crossing liquidity rests) or emits no
\* trade and leaves bids, asks, index and stats unchanged (it does when less
\* rests); either way it does not rest and consumes exactly one id.
C7_FokAllOrNothing ==
    (IsLimitOp /\ lastOp.tif = "FOK") =>
      LET liq == CrossingLiquidity(PreMatch, lastOp.side, lastOp.price) IN
      /\ \/ (liq >= lastOp.qty /\ SumQty(trades) = lastOp.qty)
         \/ (trades = << >> /\ BookUntouched)
      /\ (lastOp.qty > 0 /\ liq >= lastOp.qty) => SumQty(trades) = lastOp.qty
      /\ liq < lastOp.qty => (trades = << >> /\ BookUntouched)
      /\ lastOp.ret \notin DOMAIN book.index_
      /\ lastOp.ret \notin RestingIds(book)
      /\ OwnSide(book, lastOp.side) = OwnSide(PreMatch, lastOp.side)
      /\ lastOp.ret = prev.next_id_
      /\ book.next_id_ = prev.next_id_ + 1

\* a FOK order was filled by two trades
C7_Witness ==
    /\ lastOp.op = "addLimit"
    /\ lastOp.tif = "FOK"
    /\ Len(trades) = 2

\* C8: a GFD addLimit with an unfilled remainder r > 0 leaves its id in the
\* index and the order last in the level at its limit price on its own side,
\* with quantity r; with nothing left it is not in the index and its own
\* side is unchanged.
C8_GfdRemainderRests ==
    (IsLimitOp /\ lastOp.tif = "GFD") =>
      LET r    == lastOp.qty - SumQty(trades)
          side == OwnSide(book, lastOp.side)
          at   == FindLevel(side, lastOp.price)
      IN /\ r > 0 =>
              /\ lastOp.ret \in DOMAIN book.index_
              /\ at # 0
              /\ side[at].orders[Len(side[at].orders)] =
                    [ id |-> lastOp.ret, price |-> lastOp.price, qty |-> r,
                      side |-> lastOp.side, type |-> "Limit", tif |-> "GFD" ]
         /\ r <= 0 =>
              /\ lastOp.ret \notin DOMAIN book.index_
              /\ side = OwnSide(PreMatch, lastOp.side)

\* a GFD order traded, and what was left of it rests on a side that already
\* held another order
C8_Witness ==
    /\ lastOp.op = "addLimit"
    /\ lastOp.tif = "GFD"
    /\ Len(trades) > 0
    /\ OwnSide(prev, lastOp.side) # << >>
    /\ \E x \in Resting(OwnSide(book, lastOp.side)) :
         x.o.id = lastOp.ret /\ x.o.qty = lastOp.qty - SumQty(trades)

\* C9: every order resting between operations is a GFD limit order with a
\* positive remaining quantity; an IOC, FOK or market order is in no level
\* and not in the index once its operation has returned.
C9_OnlyGfdLimitRests ==
    /\ \A x \in Resting(book.bids_) \cup Resting(book.asks_) :
         x.o.type = "Limit" /\ x.o.tif = "GFD" /\ x.o.qty > 0
    /\ (IsOrderOp /\ (lastOp.op = "addMarket" \/ lastOp.tif # "GFD")) =>
         /\ lastOp.ret \notin RestingIds(book)
         /\ lastOp.ret \notin DOMAIN book.index_

\* an IOC limit order traded and still had quantity left when it returned
C9_Witness ==
    /\ lastOp.op = "addLimit"
    /\ lastOp.tif = "IOC"
    /\ Len(trades) > 0
    /\ SumQty(trades) < lastOp.qty

\* C10: market round trip. A market order of 0 < qty <= the opposite side's
\* total trades exactly qty and the opposite total decreases by exactly qty;
\* one of more than the opposite total consumes the whole opposite side. In
\* both cases the order does not rest and its own side is unchanged.
C10_MarketRoundTrip ==
    lastOp.op = "addMarket" =>
      LET before == SumResting(Resting(OppSide(prev, lastOp.side)))
          after  == SumResting(Resting(OppSide(book, lastOp.side)))
      IN /\ (0 < lastOp.qty /\ lastOp.qty <= before) =>
              /\ SumQty(trades) = lastOp.qty
              /\ after = before - lastOp.qty
         /\ lastOp.qty > before =>
              /\ SumQty(trades) = before
              /\ OppSide(book, lastOp.side) = << >>
         /\ OwnSide(book, lastOp.side) = OwnSide(prev, lastOp.side)
         /\ lastOp.ret \notin DOMAIN book.index_
         /\ lastOp.ret \notin RestingIds(book)

\* a market order was filled at two price levels and left part of the
\* opposite side resting
C10_Witness ==
    /\ lastOp.op = "addMarket"
    /\ SumQty(trades) = lastOp.qty
    /\ \E k \in 1..Len(trades) : trades[k].price # trades[1].price
    /\ OppSide(book, lastOp.side) # << >>

(* ------------------------------ cancel ---------------------------------- *)

\* the resting order id of book b, with the price of its level and its
\* position in the level's FIFO
RestingAt(b, id) ==
    CHOOSE x \in Resting(b.bids_) \cup Resting(b.asks_) : x.o.id = id

\* a side after the order x has left it: its level holds the other orders in
\* their order and x.o.qty less in total, or is gone if x was alone in it
SideWithout(side, x) ==
    LET l == CHOOSE k \in 1..Len(side) : side[k].price = x.px IN
    IF Len(side[l].orders) = 1
    THEN RemoveAt(side, l)
    ELSE [ side EXCEPT ![l] = [ price     |-> side[l].price,
                                total_qty |-> side[l].total_qty - x.o.qty,
                                orders    |-> RemoveAt(side[l].orders, x.pos) ] ]

\* C11: cancel of a resting order. cancel(id) for a resting id returns true,
\* removes exactly that order from its level and from the index, decreases
\* that level's total_qty by the order's remaining quantity, erases the level
\* if it became empty, emits no trade, and leaves every other order, every
\* other level, the stats and next_id unchanged.
C11_CancelResting ==
    (lastOp.op = "cancel" /\ lastOp.id \in RestingIds(prev)) =>
      LET x == RestingAt(prev, lastOp.id) IN
      /\ lastOp.ok
      /\ trades = << >>
      /\ DOMAIN book.index_ = (DOMAIN prev.index_) \ {lastOp.id}
      /\ \A k \in DOMAIN book.index_ : book.index_[k] = prev.index_[k]
      /\ OwnSide(book, x.o.side) = SideWithout(OwnSide(prev, x.o.side), x)
      /\ OppSide(book, x.o.side) = OppSide(prev, x.o.side)
      /\ book.stats_ = prev.stats_
      /\ book.next_id_ = prev.next_id_
      /\ delivered.count = prev.stats_.trade_count

\* the second of two orders of one level was cancelled, the first stays
C11_Witness ==
    /\ lastOp.op = "cancel"
    /\ lastOp.ok
    /\ lastOp.id \in RestingIds(prev)
    /\ RestingAt(prev, lastOp.id).pos = 2
    /\ Cardinality(RestingIds(book)) = 1

(* ------------------------------ replace --------------------------------- *)

\* what C14 says of a replace apart from the old id's absence: same book,
\* trades and returned id as cancel then addLimit; the id is fresh, non-zero
\* and the counter's; a resting remainder is the last of its level; for an id
\* that does not rest the call is a plain addLimit
ReplaceAsCancelThenLimit ==
    \A c \in {cancel(prev, lastOp.id)} :
    \A a \in {addLimit(c.book, lastOp.side, lastOp.price, lastOp.qty, lastOp.tif)} :
    \A n \in {addLimit(prev, lastOp.side, lastOp.price, lastOp.qty, lastOp.tif)} :
    LET own == OwnSide(book, lastOp.side)
    IN /\ book = a.book
       /\ trades = a.out
       /\ lastOp.ret = a.ret
       /\ lastOp.ret = prev.next_id_
       /\ lastOp.ret # 0
       /\ lastOp.ret \notin RestingIds(prev)
       /\ book.next_id_ = prev.next_id_ + 1
       /\ \A l \in 1..Len(own) : \A k \in 1..Len(own[l].orders) :
            own[l].orders[k].id = lastOp.ret => k = Len(own[l].orders)
       /\ lastOp.ret \notin RestingIds([bids_ |-> OppSide(book, lastOp.side),
                                        asks_ |-> << >>])
       /\ lastOp.id \notin RestingIds(prev) =>
            (book = n.book /\ trades = n.out /\ lastOp.ret = n.ret)

\* C14 as stated: replace is exactly cancel followed by a new limit, and
\* afterwards old_id is absent from the index, whatever old_id was.
C14_ReplaceOldIdAbsent ==
    lastOp.op = "replace" =>
      /\ ReplaceAsCancelThenLimit
      /\ lastOp.id \notin DOMAIN book.index_
      /\ lastOp.id \notin RestingIds(book)

\* C14: replace is exactly cancel followed by a new limit (same book, trades
\* and returned id); the returned id is a fresh non-zero id from the book's
\* counter; a resting remainder sits at the tail of its level; replacing an
\* unknown id is a plain new limit. Afterwards old_id is absent from the
\* index unless old_id is the id this very call issued, that is, unless the
\* caller passed the next id of the counter and the new order rests.
C14_ReplaceIsCancelThenLimit ==
    lastOp.op = "replace" =>
      /\ ReplaceAsCancelThenLimit
      /\ lastOp.id # lastOp.ret =>
           (lastOp.id \notin DOMAIN book.index_ /\ lastOp.id \notin RestingIds(book))
      /\ lastOp.id \in DOMAIN book.index_ =>
           /\ lastOp.id = prev.next_id_
           /\ lastOp.id \notin RestingIds(prev)
           /\ lastOp.tif = "GFD"
           /\ SumQty(trades) < lastOp.qty

\* the first of two orders of one level was replaced at its own price with a
\* smaller quantity: the new order stands behind the other one
C14_Witness ==
    /\ lastOp.op = "replace"
    /\ lastOp.id \in RestingIds(prev)
    /\ RestingAt(prev, lastOp.id).pos = 1
    /\ RestingAt(prev, lastOp.id).px = lastOp.price
    /\ RestingAt(prev, lastOp.id).o.side = lastOp.side
    /\ RestingAt(prev, lastOp.id).o.qty > lastOp.qty
    /\ lastOp.ret \in RestingIds(book)
    /\ RestingAt(book, lastOp.ret).pos = 2

(* ------------------------------ order ids ------------------------------- *)

\* C15: order ids of one book start at 1 and are unique and strictly
\* increasing in creation order: every addLimit (a rejected FOK too), every
\* addMarket and every replace consumes exactly one id and returns it, and
\* no id is issued twice: the id returned is the counter's value, one above
\* the one returned before, and above every id that rests or trades.
C15_OrderIds ==
    /\ book.next_id_ >= 1
    /\ \A id \in RestingIds(book) : 1 <= id /\ id < book.next_id_
    /\ Cardinality(RestingIds(book))
         = Cardinality(Resting(book.bids_) \cup Resting(book.asks_))
    /\ IsOrderOp =>
         /\ lastOp.ret = prev.next_id_
         /\ book.next_id_ = prev.next_id_ + 1
         /\ prev = NewBook(0, "FOO") => lastOp.ret = 1
         /\ \A id \in RestingIds(prev) : id < lastOp.ret
         /\ \A k \in 1..Len(trades) :
              TakerId(trades[k]) = lastOp.ret /\ MakerId(trades[k]) < lastOp.ret
    /\ lastOp.op = "cancel" => book.next_id_ = prev.next_id_

\* a FOK order was rejected on a book that had already issued an id, and
\* took the next one
C15_Witness ==
    /\ lastOp.op = "addLimit"
    /\ lastOp.tif = "FOK"
    /\ lastOp.qty > 0
    /\ trades = << >>
    /\ lastOp.ret = 2
    /\ book.next_id_ = 3

(* ------------------------------- totals --------------------------------- *)

\* C16: at every point between operations stats.trade_count is the number of
\* trades the callback has received since the book was constructed and
\* stats.traded_qty is the sum of their quantities; cancels and orders that
\* do not trade leave the stats unchanged.
C16_StatsCountTrades ==
    /\ book.stats_.trade_count = delivered.count
    /\ book.stats_.traded_qty = delivered.qty
    /\ lastOp.op # "none" =>
         /\ book.stats_.trade_count = prev.stats_.trade_count + Len(trades)
         /\ book.stats_.traded_qty = prev.stats_.traded_qty + SumQty(trades)
         /\ trades = << >> => book.stats_ = prev.stats_

\* an order traded on a book that had traded before
C16_Witness ==
    /\ IsOrderOp
    /\ Len(trades) = 1
    /\ prev.stats_.trade_count = 1
    /\ delivered.count = 2
    /\ delivered.qty = prev.stats_.traded_qty + trades[1].qty

\* C17: quantity conservation. After any sequence of operations the sum of
\* total_qty over all levels of both sides equals the residual quantities
\* that entered the book as resting orders, minus the quantities traded away
\* from resting orders, minus the remaining quantities removed by successful
\* cancels.
C17_QuantityConservation ==
    SumTotals(book.bids_) + SumTotals(book.asks_) = ledger

\* one call cancelled a resting order, traded against another and left a
\* remainder resting
C17_Witness ==
    /\ lastOp.op = "replace"
    /\ lastOp.id \in RestingIds(prev)
    /\ trades # << >>
    /\ lastOp.ret \in RestingIds(book)
    /\ ledger > 0

(* --------------------- cancel of what does not rest --------------------- *)

\* the symbol id the recorded engine cancel resolved to, NoSymbol if none
CancelledSymbol ==
    IF engOp.op = "cancelByName" THEN find(prevEng.to_id_, engOp.name)
    ELSE engOp.symbol

\* the recorded engine cancel named a symbol that had a book
CancelHadBook ==
    /\ CancelledSymbol # NoSymbol
    /\ CancelledSymbol < Len(prevEng.books_)
    /\ prevEng.books_[CancelledSymbol + 1] # NoBook

\* C12: cancel of an id that is not currently resting (never issued, fully
\* filled, already cancelled, FOK-rejected, or an IOC or market order)
\* returns false and leaves the whole book unchanged; at the engine level,
\* cancel for a symbol that has no book returns false and creates no book.
C12_CancelNotResting ==
    engOp.op \in {"cancelByName", "cancelSymbol"} =>
      /\ ~CancelHadBook =>
           (~engOp.ok /\ eng.books_ = prevEng.books_ /\ eng = prevEng)
      /\ (CancelHadBook
            /\ engOp.id \notin RestingIds(prevEng.books_[CancelledSymbol + 1])) =>
           (~engOp.ok /\ eng = prevEng)
      /\ eng.names_ = prevEng.names_
      /\ Len(eng.books_) = Len(prevEng.books_)

\* a cancel by id named a registered symbol that has no book, while another
\* symbol has one with a resting order
C12_Witness ==
    /\ engOp.op = "cancelSymbol"
    /\ engOp.symbol < Len(prevEng.names_)
    /\ ~CancelHadBook
    /\ \E k \in 1..Len(prevEng.books_) :
         prevEng.books_[k] # NoBook /\ RestingIds(prevEng.books_[k]) # {}

(* ------------------------------ async engine ---------------------------- *)

\* s is an initial segment of t
IsPrefix(s, t) == Len(s) <= Len(t) /\ \A k \in 1..Len(s) : s[k] = t[k]

\* C18: events submitted by the single producer are handed to
\* processInternal by the worker in exactly the order in which submit
\* returned, each at most once, with no reordering between events of the same
\* or of different symbols: what has been processed is an initial segment of
\* what has been submitted, and the event the worker holds is the next one.
C18_ProcessedInSubmitOrder ==
    /\ IsPrefix(processed, submitted)
    /\ \A j, k \in 1..Len(processed) : processed[j] = processed[k] => j = k
    /\ worker.pc = "process" =>
         /\ Len(processed) < Len(submitted)
         /\ worker.ie = submitted[Len(processed) + 1]

\* events of two different symbols were processed while a third waited in
\* the queue
C18_Witness ==
    /\ Len(processed) = 2
    /\ processed[1].symbol # processed[2].symbol
    /\ Len(queue_) = 1
    /\ queue_[1].type = "NewLimit"

\* no caller has submitted an event of type Stop
NoStopSubmitted ==
    /\ \A k \in 1..Len(submitted) : submitted[k].type # "Stop"
    /\ producer.pc \in {"resolve", "submit"} => producer.ie.type # "Stop"

\* C19: shutdown drains prior events. The worker exits through the running
\* flag only when no submitted event is left in the queue, and once stop()
\* has returned every event whose submit returned before stop() was called
\* has been processed.
C19_ShutdownDrains ==
    /\ (worker.pc = "done" /\ worker.exit = "flag") =>
         \A k \in 1..Len(queue_) : queue_[k].type = "Stop"
    /\ (stopLog.returns > 0 /\ NoStopSubmitted) =>
         \A k \in 1..stopLog.before :
           \E j \in 1..Len(processed) : processed[j] = submitted[k]

\* stop() is past its compare-exchange and has not returned
InStop == producer.pc \in {"stopPush", "join"}

\* C20: stop() always terminates. Under fair scheduling of the calling
\* thread and the worker, a stop() call whose compare-exchange succeeded
\* pushes its sentinel, sees the worker exit and returns (stated for the
\* runs in which no caller submitted a Stop event of its own).
C20_StopTerminates ==
    (InStop /\ NoStopSubmitted) ~> (stopLog.returns > 0)

\* C13: cancel idempotence. In any sequence of operations on a book, cancel(id)
\* returns true at most once for any given id: after a true result every later
\* cancel(id), also the one inside a replace, returns false.
C13_CancelTrueAtMostOnce ==
    /\ \A p \in SymbolIds \X OrderIds : cancelledOk[p] <= 1
    /\ (engOp.op \in {"cancelByName", "cancelSymbol"} /\ engOp.ok) =>
         cancelledOk[<< CancelledSymbol, engOp.id >>] = 1

\* an order cancelled earlier in the run was cancelled again, and the call
\* returned false
C13_Witness ==
    /\ engOp.op = "cancelByName"
    /\ ~engOp.ok
    /\ CancelHadBook
    /\ cancelledOk[<< CancelledSymbol, engOp.id >>] = 1

(* ------------------------------ claim C30 ------------------------------ *)

\* the levels opposite `side` whose price a limit `price` crosses
CrossingLevels(b, side, price) ==
    { l \in 1..Len(OppSide(b, side)) :
        Crosses(side, price, OppSide(b, side)[l].price) }

\* the sum of total_qty over a set of levels of a side
RECURSIVE SumLevelTotals(_, _)
SumLevelTotals(side, L) ==
    IF L = {} THEN 0
    ELSE LET l == CHOOSE m \in L : TRUE
         IN side[l].total_qty + SumLevelTotals(side, L \ {l})

\* the quantities canFullyMatch is asked about: none, negative, and up to
\* more than the book can hold
FokQtys == (0 - 1)..(2 * MaxOrders + 1)

\* C30: in every reachable book (each is the book of a state with no
\* recorded call) and for every side, price and quantity, canFullyMatch is
\* true exactly when qty <= 0 or the total_qty of the
\* opposite levels that the price crosses (asks at or below it for a buy,
\* bids at or above it for a sell) add up to at least qty. It is a function
\* of the book alone: a FOK addLimit it answers false to leaves the book as
\* it was.
C30_CanFullyMatchIffLiquidity ==
    /\ lastOp.op = "none" =>
         \A side \in Sides : \A price \in Prices :
           \E liquidity \in { SumLevelTotals(OppSide(book, side),
                                             CrossingLevels(book, side, price)) } :
             \A qty \in FokQtys :
               canFullyMatch(book, side, price, qty)
                 = (qty <= 0 \/ liquidity >= qty)
    /\ (IsLimitOp /\ lastOp.tif = "FOK"
          /\ ~canFullyMatch(PreMatch, lastOp.side, lastOp.price, lastOp.qty))
         => BookUntouched

\* a FOK order was asked for more than the best crossing level holds and was
\* filled from two levels
C30_Witness ==
    /\ lastOp.op = "addLimit"
    /\ lastOp.tif = "FOK"
    /\ Cardinality(CrossingLevels(PreMatch, lastOp.side, lastOp.price)) = 2
    /\ canFullyMatch(PreMatch, lastOp.side, lastOp.price, lastOp.qty)
    /\ lastOp.qty > OppSide(PreMatch, lastOp.side)[bestLevel(OppSide(PreMatch, lastOp.side))].total_qty
    /\ Len(trades) = 2

(* ------------------------------ claim C26 ------------------------------ *)

\* the name-to-id map agrees on every name it held when the recorded call
\* was made, and the name list begins with the list of then
IdsKept ==
    /\ \A n \in DOMAIN prevEng.to_id_ :
         n \in DOMAIN eng.to_id_ /\ eng.to_id_[n] = prevEng.to_id_[n]
    /\ IsPrefix(prevEng.names_, eng.names_)

\* the recorded call left the name-to-id map and the name list as they were
IndexUntouched ==
    /\ eng.names_ = prevEng.names_
    /\ eng.to_id_ = prevEng.to_id_

\* C26: symbol ids are dense and stable. The k-th distinct name passed to
\* getOrCreate has id k-1, and name() of that id is that name; getOrCreate
\* of a name that has an id returns it and adds nothing, of a new name
\* returns the number of names so far and adds one; the calls that look a
\* name up with find add nothing; no call changes the id of a name.
C26_SymbolIdsDenseStable ==
    /\ Len(eng.names_) = Len(passed)
    /\ DOMAIN eng.to_id_ = { passed[k] : k \in 1..Len(passed) }
    /\ \A k \in 1..Len(passed) :
         /\ find(eng.to_id_, passed[k]) = k - 1
         /\ nameOf(eng.names_, k - 1) = passed[k]
    /\ engOp.op = "resolveSymbol" =>
         /\ nameOf(eng.names_, engOp.ret) = engOp.name
         /\ find(eng.to_id_, engOp.name) = engOp.ret
         /\ IF find(prevEng.to_id_, engOp.name) # NoSymbol
            THEN engOp.ret = find(prevEng.to_id_, engOp.name) /\ eng = prevEng
            ELSE /\ engOp.ret = size(prevEng.names_)
                 /\ size(eng.names_) = size(prevEng.names_) + 1
    /\ engOp.op \in {"cancelByName", "queryByName"} => IndexUntouched
    /\ engOp.op # "none" => IdsKept

\* the second distinct name was resolved and got id 1
C26_Witness ==
    /\ engOp.op = "resolveSymbol"
    /\ Len(prevEng.names_) = 1
    /\ find(prevEng.to_id_, engOp.name) = NoSymbol
    /\ engOp.ret = 1
    /\ Len(eng.names_) = 2

(* ------------------------------ claim C27 ------------------------------ *)

\* the symbol id a recorded query is about, NoSymbol for an unknown name
QueriedSymbol ==
    IF engOp.op = "queryByName" THEN find(prevEng.to_id_, engOp.name)
    ELSE engOp.symbol

\* the symbol a recorded query is about has a book
QueriedHasBook ==
    /\ QueriedSymbol # NoSymbol
    /\ QueriedSymbol < Len(prevEng.books_)
    /\ prevEng.books_[QueriedSymbol + 1] # NoBook

\* the best price of what rests on a side (the highest bid, the lowest ask)
\* and the quantity resting at it, each none when nothing rests
BestResting(b, side) ==
    LET R == Resting(OwnSide(b, side))
        best == CHOOSE x \in R : \A y \in R : Crosses(side, x.px, y.px)
    IN IF R = {} THEN [px |-> << >>, size |-> << >>]
       ELSE [ px |-> << best.px >>,
              size |-> << SumResting({ y \in R : y.px = best.px }) >> ]

\* C27: topOfBook and bookStats, by SymbolId or by name, of a symbol that is
\* unknown or has no book return a TopOfBook of five empty fields and
\* std::nullopt, and create neither a symbol id nor a book; for a symbol
\* with a book, topOfBook reports the best bid and ask of what rests, the
\* quantity resting at each, and the book's midPrice, and bookStats the
\* book's stats.
C27_QueriesOfMissingBook ==
    engOp.op \in {"queryById", "queryByName"} =>
      /\ eng = prevEng
      /\ ~QueriedHasBook =>
           /\ engOp.res.tob = NoTopOfBook
           /\ engOp.res.stats = << >>
      /\ QueriedHasBook =>
           \A b \in {prevEng.books_[QueriedSymbol + 1]} :
             /\ engOp.res.tob.best_bid = BestResting(b, "Buy").px
             /\ engOp.res.tob.bid_size = BestResting(b, "Buy").size
             /\ engOp.res.tob.best_ask = BestResting(b, "Sell").px
             /\ engOp.res.tob.ask_size = BestResting(b, "Sell").size
             /\ engOp.res.tob.mid_price = midPrice(b)
             /\ (engOp.res.tob.mid_price # << >>) =
                  (BestResting(b, "Buy").px # << >> /\ BestResting(b, "Sell").px # << >>)
             /\ engOp.res.stats = << b.stats_ >>

\* a registered name whose book was never created was queried while
\* another symbol has a book with a resting order
C27_Witness ==
    /\ engOp.op = "queryByName"
    /\ QueriedSymbol # NoSymbol
    /\ ~QueriedHasBook
    /\ \E k \in 1..Len(eng.books_) :
         eng.books_[k] # NoBook /\ RestingIds(eng.books_[k]) # {}

(* ------------------------------ claim C25 ------------------------------ *)

\* C25: processInternal, the call a worker step makes, leaves the
\* name-to-id map and the name list unchanged for every event type, also
\* when it creates the book of its symbol.
C25_WorkerLeavesSymbolIndex ==
    engOp.op = "processInternal" => IndexUntouched

\* a NewLimit event was processed for a registered symbol that had no book,
\* and the book was created
C25_Witness ==
    /\ engOp.op = "processInternal"
    /\ engOp.type = "NewLimit"
    /\ bookStats(prevEng, engOp.symbol) = << >>
    /\ bookStats(eng, engOp.symbol) # << >>
    /\ Len(eng.names_) = 2

(* ------------------------------ claim C21 ------------------------------ *)

\* C21: stop() is idempotent. Over all stop() calls at most one sentinel is
\* pushed and the worker is joined at most once, exactly one and once as
\* soon as a stop() call has returned; a stop() call after the first
\* returns at once, pushes nothing, joins nothing and leaves queue, flag,
\* worker and engine as they were.
C21_StopIdempotent ==
    /\ [](/\ stopLog.pushed <= 1
          /\ stopLog.joined <= 1
          /\ stopLog.returns >= 1 => (stopLog.pushed = 1 /\ stopLog.joined = 1))
    /\ [][ (stopLog'.calls > stopLog.calls /\ stopLog.calls >= 1) =>
             /\ UNCHANGED << queue_, running_, producer, worker, processed,
                             submitted, eng >>
             /\ stopLog' = [stopLog EXCEPT !.calls = @ + 1, !.returns = @ + 1]
         ]_vars

\* stop() was called twice and returned twice, with an event processed
\* before
C21_Witness ==
    /\ stopLog.calls = 2
    /\ stopLog.returns = 2
    /\ stopLog.pushed = 1
    /\ stopLog.joined = 1
    /\ Len(processed) >= 1

(* ------------------------------ claim C22 ------------------------------ *)

\* how often e occurs in a sequence
Occurrences(seq, e) == Cardinality({ k \in 1..Len(seq) : seq[k] = e })

\* the worker has popped e and not yet handed it on: it is inside
\* processInternal with it, or it has returned on it as a Stop
WorkerHolds(e) ==
    /\ worker.ie = e
    /\ \/ worker.pc = "process"
       \/ worker.pc = "done" /\ worker.exit = "stop"

\* C22: a full queue never drops an event. The queue never holds more than
\* its capacity; every event whose submit has returned is in exactly one
\* place, once: in the queue, with the worker, or processed; the event of a
\* submit that has not returned is in none of them; and submit returns only
\* by a push that found room and stored the event last.
C22_SaturationNeverDrops ==
    /\ [](/\ Len(queue_) <= QueueCap
          /\ \A k \in 1..Len(submitted) :
               Occurrences(queue_, submitted[k])
                 + Occurrences(processed, submitted[k])
                 + (IF WorkerHolds(submitted[k]) THEN 1 ELSE 0) = 1
          /\ producer.pc \in {"resolve", "submit"} =>
               /\ Occurrences(queue_, producer.ie) = 0
               /\ Occurrences(processed, producer.ie) = 0
               /\ Occurrences(submitted, producer.ie) = 0)
    /\ [][ Len(submitted') > Len(submitted) =>
             /\ producer.pc = "submit"
             /\ Len(queue_) < QueueCap
             /\ queue_' = Append(queue_, producer.ie)
             /\ submitted' = Append(submitted, producer.ie)
         ]_vars

\* the queue is full, a submit call is retrying its push, and the worker is
\* still in its loop
C22_Witness ==
    /\ Len(queue_) = QueueCap
    /\ producer.pc = "submit"
    /\ Len(submitted) = QueueCap
    /\ worker.pc # "done"

(* ------------------------------ claim C23 ------------------------------ *)

\* the worker has not been told to stop: stop() was not called and no caller
\* has submitted an event of type Stop
WorkerRunning == stopLog.calls = 0 /\ NoStopSubmitted

\* C23: liveness of the async engine. Under fair scheduling, while the
\* worker has not been told to stop, every submit call returns, also one
\* that finds the queue full, and every event whose submit has returned is
\* processed: events are processed in the order submitted (C18), so the
\* worker reaching the last event submitted so far has processed them all.
\* (Stated for runs without the conflicting accesses of RacingAccess, and up
\* to the moment the worker is told to stop.)
C23_AsyncLiveness ==
    /\ (producer.pc \in {"resolve", "submit"} /\ WorkerRunning)
         ~> (producer.pc = "idle" \/ RacingAccess)
    /\ (Len(processed) < Len(submitted) /\ WorkerRunning)
         ~> (Len(processed) = Len(submitted) \/ ~WorkerRunning \/ RacingAccess)

\* every submit the run allows has returned and its event has been
\* processed, the worker still running
C23_Witness ==
    /\ WorkerRunning
    /\ Len(submitted) = MaxSubmits
    /\ Len(processed) = MaxSubmits
    /\ worker.pc # "done"

(* ------------------------------ claim C24 ------------------------------ *)

\* C24: the queue and the running flag are the only state both threads
\* access: no call of the calling thread into the engine is under way on
\* state that a call of the worker under way accesses too. (submit(const
\* Event&) calls resolveSymbol, which enters a new name into the
\* SymbolIndex, while processInternal on the worker reads names_ to create
\* a book.)
C24_QueueOnlySharedState == ~RacingAccess

(* ------------------------------ claim C28 ------------------------------ *)

\* C28: with user tracking, a risk rejection returns id 0 and changes no
\* state: when checkRisk refuses the order of a NewLimit, NewMarket or
\* Replace event, processInternal leaves books, symbol index, owner_ and
\* user_positions_ as they were.
C28_RiskRejectChangesNothing ==
    (trackOp.op = "processInternal" /\ trackOp.rejected) =>
      /\ trackOp.ret = 0
      /\ tracked = prevTracked

(* ------------------------------ claim C29 ------------------------------ *)

\* the sum of the positions the engine holds for the users in a symbol
RECURSIVE SumPositions(_, _, _)
SumPositions(up, U, symbol) ==
    IF U = {} THEN 0
    ELSE LET u == CHOOSE v \in U : TRUE
         IN PositionOf(up, u, symbol).position + SumPositions(up, U \ {u}, symbol)

\* C29: with user tracking, every trade adds its quantity to the position of
\* the buy order's user in the symbol and takes it from that of the sell
\* order's user, in engines with several symbols and for orders entered by
\* Replace as well: each user's position is what the user's orders bought
\* less what they sold, and the positions in a symbol sum to zero.
C29_PositionsFollowTrades ==
    /\ \A u \in Users, symbol \in SymbolIds :
         PositionOf(tracked.user_positions_, u, symbol).position
           = netBought[<< u, symbol >>]
    /\ \A symbol \in SymbolIds :
         SumPositions(tracked.user_positions_, Users, symbol) = 0

(* ------------------------------ claim C34 ------------------------------ *)

\* the quantity of the first k trades of the recorded call
TradedUpTo(k) == SumQty(SubSeq(trades, 1, k))

\* the quantity the first k trades of the recorded call took at price px
TradedAtUpTo(px, k) ==
    SumQty(SelectSeq(SubSeq(trades, 1, k), LAMBDA t : t.price = px))

\* the level of a side at a price, an empty level if the side has none
LevelAt(side, px) ==
    IF FindLevel(side, px) = 0 THEN EmptyLevel(px) ELSE side[FindLevel(side, px)]

\* C34: the stats are updated before the callback runs. When the callback
\* is invoked for the k-th trade of a call, trade_count and traded_qty of
\* the book already include that trade, last_trade_price is its price and
\* has_last_trade is true; the incoming order, the resting order (still in
\* its level, even with nothing left) and the level's total_qty are already
\* reduced by the traded quantity.
C34_StatsBeforeCallback ==
    IsOrderOp =>
      /\ Len(lastOp.res) = Len(trades)
      /\ \A k \in 1..Len(trades) :
           \E v \in {lastOp.res[k]} :
             /\ v.book.stats_
                  = [ trade_count      |-> PreMatch.stats_.trade_count + k,
                      traded_qty       |-> PreMatch.stats_.traded_qty + TradedUpTo(k),
                      last_trade_price |-> trades[k].price,
                      has_last_trade   |-> TRUE ]
             /\ v.o.id = lastOp.ret
             /\ v.o.qty = lastOp.qty - TradedUpTo(k)
             /\ \E x \in Makers :
                  /\ x.o.id = MakerId(trades[k])
                  /\ \E lvl \in {LevelAt(OppSide(v.book, lastOp.side), x.px)} :
                       /\ \E i \in 1..Len(lvl.orders) :
                            lvl.orders[i]
                              = [x.o EXCEPT !.qty = RemainingBefore(x, k + 1)]
                       /\ lvl.total_qty
                            = LevelAt(OppSide(PreMatch, lastOp.side), x.px).total_qty
                                - TradedAtUpTo(x.px, k)

\* the callback received two trades of one incoming order; at the first the
\* resting order was still in its level with nothing left, and the incoming
\* order had quantity left
C34_Witness ==
    /\ IsOrderOp
    /\ Len(trades) = 2
    /\ Len(lastOp.res) = 2
    /\ lastOp.res[1].o.qty > 0
    /\ \E x \in Resting(OppSide(lastOp.res[1].book, lastOp.side)) :
         x.o.id = MakerId(trades[1]) /\ x.o.qty = 0
    /\ lastOp.res[1].book.stats_.trade_count = prev.stats_.trade_count + 1

(* ------------------------------ claim C32 ------------------------------ *)

\* what its trades left of the incoming order of the recorded call
Leftover == lastOp.qty - SumQty(trades)

\* the recorded limit order went through match: an FOK order that cannot be
\* filled at once returns before it
WasMatched ==
    /\ IsLimitOp
    /\ ~( /\ lastOp.tif = "FOK"
          /\ ~canFullyMatch(PreMatch, lastOp.side, lastOp.price, lastOp.qty) )

\* the prices of the orders resting opposite the incoming one after the call
\* that its limit price crosses
StillCrossing ==
    { x.px : x \in { y \in Resting(OppSide(book, lastOp.side)) :
                       Crosses(lastOp.side, lastOp.price, y.px) } }

\* C32: a limit order never trades through its limit. Every trade of an
\* incoming limit buy is at a price at or below its limit, every trade of a
\* limit sell at or above it; when matching has stopped the incoming order
\* has nothing left, or the opposite side is empty, or the best opposite
\* price does not cross the limit, so that a remainder never rests while an
\* opposite order crosses it.
C32_NoTradeThrough ==
    IsLimitOp =>
      /\ \A k \in 1..Len(trades) :
           Crosses(lastOp.side, lastOp.price, trades[k].price)
      /\ WasMatched =>
           \/ Leftover = 0
           \/ Len(OppSide(book, lastOp.side)) = 0
           \/ ~Crosses(lastOp.side, lastOp.price,
                       OppSide(book, lastOp.side)[bestLevel(OppSide(book, lastOp.side))].price)
      /\ lastOp.ret \in RestingIds(book) => StillCrossing = {}

\* a limit order took all that its limit crosses, stopped at an opposite
\* level beyond its limit and rests with what is left
C32_Witness ==
    /\ IsLimitOp
    /\ Len(trades) > 0
    /\ Leftover > 0
    /\ Len(OppSide(book, lastOp.side)) > 0
    /\ lastOp.ret \in RestingIds(book)

(* ------------------------------ claim C31 ------------------------------ *)

\* C31: the top-of-book queries. bestBid is the highest resting bid price
\* and bestAsk the lowest resting ask price, none when the side is empty;
\* bestBidSize and bestAskSize are the total_qty of those levels; midPrice
\* is none exactly when a side is empty and is otherwise the sum of the two
\* best prices halved, truncated toward zero, whatever prices rest.
C31_TopOfBookQueries ==
    lastOp.op = "topOfBook" =>
      \E q \in {lastOp.res}, bid \in {BestResting(book, "Buy")},
         ask \in {BestResting(book, "Sell")} :
        /\ q.best_bid = bid.px
        /\ q.best_ask = ask.px
        /\ q.bid_size = bid.size
        /\ q.ask_size = ask.size
        /\ bid.px # << >> => q.bid_size = << LevelAt(book.bids_, bid.px[1]).total_qty >>
        /\ ask.px # << >> => q.ask_size = << LevelAt(book.asks_, ask.px[1]).total_qty >>
        /\ (q.mid_price = << >>) <=> (bid.px = << >> \/ ask.px = << >>)
        /\ q.mid_price # << >> =>
             q.mid_price = << Quot(bid.px[1] + ask.px[1], 2) >>

(* ------------------------------ claim C36 ------------------------------ *)

\* C36: an order with qty <= 0 is inert. addLimit (GFD, IOC or FOK) and
\* addMarket called with a quantity that is zero or negative emit no trade,
\* rest nothing and leave bids, asks, index and stats as they were, whatever
\* the book holds; the call only uses up one order id.
C36_NonPositiveQtyInert ==
    (IsOrderOp /\ lastOp.qty <= 0) =>
      /\ trades = << >>
      /\ lastOp.ret = prev.next_id_
      /\ book = [prev EXCEPT !.next_id_ = @ + 1]

\* a GFD limit order for a negative quantity met a book with an opposite
\* order that its price crosses
C36_Witness ==
    /\ lastOp.op = "addLimit"
    /\ lastOp.tif = "GFD"
    /\ lastOp.qty < 0
    /\ CrossingLevels(prev, lastOp.side, lastOp.price) # {}

(* ------------------------------ claim C35 ------------------------------ *)

\* every trade of the recorded call has a positive quantity and is between
\* the incoming order and an older order that rested on the opposite side of
\* the same book
TradesPairOrders ==
    \A k \in 1..Len(trades) :
       /\ trades[k].qty > 0
       /\ trades[k].buy_id # trades[k].sell_id
       /\ trades[k].symbol_id = prev.symbol_id_
       /\ TakerId(trades[k]) = lastOp.ret
       /\ MakerId(trades[k]) \in { x.o.id : x \in Makers }
       /\ TakerId(trades[k]) > MakerId(trades[k])

\* C35 as stated: every emitted trade has qty > 0, pairs a buy order with a
\* sell order of the same book, and its incoming order has the greater id;
\* the trade quantities of one incoming order sum to no more than the
\* quantity it asked for.
C35_TradeSumWithinRequest ==
    IsOrderOp =>
      /\ TradesPairOrders
      /\ SumQty(trades) <= lastOp.qty

\* C35, amended: the same of every trade; the trade quantities of one
\* incoming order sum to no more than the quantity it asked for if that is
\* positive, and to zero if it is not.
C35_TradesWellFormed ==
    IsOrderOp =>
      /\ TradesPairOrders
      /\ SumQty(trades) <= (IF lastOp.qty > 0 THEN lastOp.qty ELSE 0)

\* an incoming order for two units took the one unit of the only order it
\* could trade with
C35_Witness ==
    /\ IsOrderOp
    /\ Len(trades) = 1
    /\ lastOp.qty = 2
    /\ SumQty(trades) = 1

(* ------------------------------ claim C37 ------------------------------ *)

\* the book an engine holds for a symbol id, NoBook when it holds none
BookOf(e, symbol) ==
    IF symbol < Len(e.books_) THEN e.books_[symbol + 1] ELSE NoBook

\* the symbol ids for which the engine held a book before or holds one after
\* the recorded call
BookSymbols ==
    { B \in 0..(Len(eng.books_) + Len(prevEng.books_)) :
        BookOf(eng, B) # NoBook \/ BookOf(prevEng, B) # NoBook }

\* C37: books are isolated. processInternal of an event for a symbol leaves
\* the book (sides, index, stats, next_id) of every other symbol as it was,
\* and every trade emitted during the call carries the event's symbol id; a
\* Stop event changes no book, and a Cancel event creates none.
C37_BooksIsolated ==
    engOp.op = "processInternal" =>
      /\ \A B \in BookSymbols :
           B # engOp.symbol => BookOf(eng, B) = BookOf(prevEng, B)
      /\ \A k \in 1..Len(engOp.res) : engOp.res[k].symbol_id = engOp.symbol
      /\ engOp.type = "Stop" => eng.books_ = prevEng.books_
      /\ engOp.type = "Cancel" =>
           \A B \in BookSymbols : BookOf(prevEng, B) # NoBook

\* an order entered for the second symbol created its book while the book
\* of the first symbol held a resting order
C37_Witness ==
    /\ engOp.op = "processInternal"
    /\ engOp.type \in {"NewLimit", "NewMarket", "Replace"}
    /\ engOp.symbol = 1
    /\ BookOf(prevEng, 1) = NoBook
    /\ BookOf(eng, 1) # NoBook
    /\ BookOf(eng, 0) # NoBook
    /\ RestingIds(BookOf(eng, 0)) # {}

(* ------------------------------ claim C40 ------------------------------ *)

\* C40: every book of the engine belongs to a registered symbol. A book
\* exists only for a symbol id below the size of the SymbolIndex and borrows
\* the name the index holds for that id; no call looks up the name of an id
\* that was never registered.
C40_BooksOfRegisteredSymbols ==
    \A k \in 1..Len(eng.books_) :
       eng.books_[k] # NoBook =>
         /\ k - 1 < size(eng.names_)
         /\ eng.books_[k].symbol_name_ = nameOf(eng.names_, k - 1)

(* ---------------- C33: trades reach the user callback ------------------- *)

\* the trades of a symbol among those the callback has received, in order
TradesOf(symbol) == SelectSeq(userTrades, LAMBDA t : t.symbol_id = symbol)

\* the incoming order of a trade: ids are issued in arrival order and a trade
\* pairs an incoming order with one that rested before it
IncomingId(t) == IF t.buy_id > t.sell_id THEN t.buy_id ELSE t.sell_id
RestingId(t) == IF t.buy_id > t.sell_id THEN t.sell_id ELSE t.buy_id

\* the second of two successive trades of one incoming order is at a price
\* no better for it, and at the same price against a later resting order
InExecutionOrder(t, u) ==
    /\ IncomingId(t) <= IncomingId(u)
    /\ IncomingId(t) = IncomingId(u) =>
         /\ IF t.buy_id > t.sell_id THEN t.price <= u.price ELSE t.price >= u.price
         /\ t.price = u.price => RestingId(t) < RestingId(u)

\* C33: between calls of process, the user callback has received every trade
\* the books have executed exactly once (per symbol as many trades, and as
\* much quantity, as the book's stats count, the last of them at the book's
\* last trade price, and no pair of orders twice), and per symbol in
\* execution order: by incoming order in the order the events were processed,
\* and within one incoming order in the order the book matched it.
C33_CallbackOnceInOrder ==
    \A symbol \in SymbolIds :
      \E T \in {TradesOf(symbol)} :
        \E held \in {BookOf(eng, symbol)} :
          /\ Len(T) = (IF held = NoBook THEN 0 ELSE held.stats_.trade_count)
          /\ SumQty(T) = (IF held = NoBook THEN 0 ELSE held.stats_.traded_qty)
          /\ Len(T) > 0 => T[Len(T)].price = held.stats_.last_trade_price
          /\ \A i, j \in 1..Len(T) :
               i < j => << T[i].buy_id, T[i].sell_id >> # << T[j].buy_id, T[j].sell_id >>
          /\ \A i \in 1..(Len(T) - 1) : InExecutionOrder(T[i], T[i + 1])

\* one incoming order has traded at two prices, and the callback received both
C33_Witness ==
    /\ Len(userTrades) = 2
    /\ userTrades[1].symbol_id = userTrades[2].symbol_id
    /\ IncomingId(userTrades[1]) = IncomingId(userTrades[2])
    /\ userTrades[1].price # userTrades[2].price

(* ------------- C38: nothing is processed after a popped Stop ------------ *)

\* the worker has popped an event of type Stop and returned from runLoop
PoppedStop == worker.pc = "done" /\ worker.exit = "stop"

\* a step taken after the worker popped a Stop: the worker stays returned,
\* nothing more is processed, the books and the delivered trades stay, what
\* is enqueued stays enqueued, and a submit that waits on a full queue goes
\* on waiting on a full queue
AfterPoppedStop ==
    PoppedStop =>
      /\ worker' = worker
      /\ processed' = processed
      /\ eng'.books_ = eng.books_
      /\ userTrades' = userTrades
      /\ IsPrefix(queue_, queue_')
      /\ (producer.pc = "submit" /\ Len(queue_) = QueueCap) =>
           (producer' = producer /\ submitted' = submitted /\ queue_' = queue_)

\* C38: the worker never processes an event of type Stop (it returns on
\* popping one, whether it is the sentinel of stop() or was submitted by a
\* caller), and once it has popped one it never processes another event:
\* every event enqueued behind the Stop stays in the queue, and a submit that
\* finds the queue full never returns.
C38_NothingAfterStop ==
    /\ [](\A i \in 1..Len(processed) : processed[i].type # "Stop")
    /\ [][AfterPoppedStop]_vars

\* the worker has popped a Stop, the queue has filled up behind it, and a
\* submit is waiting to push
C38_Witness ==
    /\ PoppedStop
    /\ Len(queue_) = QueueCap
    /\ producer.pc = "submit"

(* ------------- C39: the async engine and the synchronous one ------------ *)

\* one call of process on a synchronous engine constructed with a callback,
\* for the submitted event ie, its symbol given by the name it was
\* submitted under; s is [eng, trades]: the engine and what its callback has
\* received
SyncStep(s, ie) ==
    LET r == process(s.eng, [ie EXCEPT !.symbol = eng.names_[ie.symbol + 1]])
    IN [eng |-> r.eng, trades |-> handleTradesPlain(TRUE, s.trades, r.out)]

\* a synchronous engine that has processed the first k of events, in order
RECURSIVE SyncRun(_, _)
SyncRun(events, k) ==
    IF k = 0 THEN [eng |-> NewEngine, trades |-> << >>]
    ELSE SyncStep(SyncRun(events, k - 1), events[k])

\* C39: whenever the worker is between two calls into the engine, the books
\* (with their stats) of the async engine and the trades its callback has
\* received are those of a synchronous engine that has processed some
\* prefix of the events submitted so far, in submission order.
C39_AsyncRefinesSync ==
    \E k \in 0..Len(submitted) :
      \E sync \in {SyncRun(submitted, k)} :
        /\ eng.books_ = sync.eng.books_
        /\ userTrades = sync.trades

\* two submitted orders have traded on the worker, and a third event is
\* submitted and not yet processed
C39_Witness ==
    /\ Len(userTrades) > 0
    /\ Len(processed) >= 2
    /\ Len(processed) < Len(submitted)

====
